---- MODULE Spec2Model ----
(***************************************************************************)
(* A model of the MQTT 3.1.1 client engine of src/src/mqtt.c and of the    *)
(* codec of src/src/mqtt_packet.c.                                         *)
(*                                                                         *)
(* Bytes are integers 0..255, packets and buffers are sequences of bytes.  *)
(* The engine (struct mqtt_s) is the group of variables named after its    *)
(* fields; operators that transform it work on a record with the same      *)
(* fields.  The specifications share the operators:                        *)
(*   Spec        one caller: every entry point is one atomic action;       *)
(*   SpecStream  one caller, the inbound byte stream cut into chunks;      *)
(*   SpecConc    two threads: every entry point is a sequence of steps cut *)
(*               where the code takes or releases its spinlock or calls    *)
(*               out;                                                      *)
(*   SpecOut     one caller that also publishes, subscribes, unsubscribes  *)
(*               and takes packet identifiers;                             *)
(*   SpecIds     two threads that take packet identifiers;                 *)
(*   SpecBig     one caller, an inbound packet over the maximum size.      *)
(*   SpecCalls   two threads that also publish, subscribe and unsubscribe; *)
(*   SpecInputs  two threads that call mqtt_input once each;               *)
(*   SpecFair    two threads that call mqtt_input and mqtt_timer under a   *)
(*               fair scheduler;                                           *)
(*   SpecCodec   the functions of the codec and the framing function, each *)
(*               applied to arguments drawn from bounded sets;             *)
(*   SpecPackets one caller, inbound packets of every type, well formed    *)
(*               and malformed;                                            *)
(*   SpecRouting one caller, engines created with and without the optional *)
(*               handlers, whole inbound packets;                          *)
(*   SpecAlias   two threads that connect, disconnect and feed fragments;  *)
(*   SpecHealthy one caller, a broker that answers every PINGREQ in time.  *)
(***************************************************************************)
EXTENDS Integers, Sequences, FiniteSets, TLC

VARIABLES
    state,                  \* mqtt->state
    next_packet_id,         \* mqtt->next_packet_id
    keep_alive_timer,       \* mqtt->keep_alive_timer (ms)
    waiting_pingresp,       \* mqtt->waiting_pingresp
    missed_pingresp_count,  \* mqtt->missed_pingresp_count
    reassembly_buf,         \* bytes held in mqtt->reassembly_buf
    reassembly_len,         \* mqtt->reassembly_len
    reassembly_capacity,    \* mqtt->reassembly_capacity (0: no buffer)
    lock,                   \* mqtt->lock: 0 free, else the holding thread
    config,                 \* mqtt->config
    handler,                \* the optional handlers that are installed
    last,                   \* the last completed call: what it was given, saw, did
    stream,                 \* inbound bytes the transport is delivering
    cursor,                 \* how many bytes of stream have been fed
    base,                   \* the engine when stream started
    log,                    \* handler invocations since stream started
    dlog,                   \* packets handed to process_packet since then
    conn_elapsed,           \* ms reported by mqtt_timer since entering Connected
    since_ping,             \* ms reported by mqtt_timer since the last PINGREQ
    ping_ticks,             \* deadline ticks that found that PINGREQ unanswered
    unanswered,             \* a PINGREQ was sent, no PINGRESP processed since
    pc,                     \* SpecConc: each thread's position
    loc                     \* SpecConc: each thread's locals

engvars == <<state, next_packet_id, keep_alive_timer, waiting_pingresp,
             missed_pingresp_count, reassembly_buf, reassembly_len,
             reassembly_capacity>>
obsvars == <<last, stream, cursor, base, log, dlog, conn_elapsed, since_ping,
             ping_ticks, unanswered>>
thrvars == <<pc, loc, lock>>
vars == <<engvars, config, handler, obsvars, thrvars>>

----------------------------------------------------------------------------
(* Program constants *)

MQTT_STATE_DISCONNECTED == 0
MQTT_STATE_CONNECTING == 1
MQTT_STATE_CONNECTED == 2

MQTT_PKT_CONNECT == 1
MQTT_PKT_CONNACK == 2
MQTT_PKT_PUBLISH == 3
MQTT_PKT_PUBACK == 4
MQTT_PKT_SUBSCRIBE == 8
MQTT_PKT_SUBACK == 9
MQTT_PKT_UNSUBSCRIBE == 10
MQTT_PKT_UNSUBACK == 11
MQTT_PKT_PINGREQ == 12
MQTT_PKT_PINGRESP == 13
MQTT_PKT_DISCONNECT == 14

MQTT_QOS_0 == 0

MQTT_CONN_ACCEPTED == 0
MQTT_CONN_REFUSED_SERVER == 3

MQTT_MAX_PACKET_SIZE == 131072
MinCapacity == 1024
PacketBufSize == 1024
PacketIdModulus == 65536
MissedLimit == 3
TopicBufSize == 256
MaxReturnCodes == 16

(* Bounds of the model *)

MaxStreamLen == 6       \* bytes in one inbound stream of SpecStream
MaxTimer == 2000        \* mqtt_timer is not called past this accumulator value
MaxHeld == 1            \* Spec: mqtt_input is not called when it would hold more
MaxChunk == 6
\* a topic of LongTopicLen bytes, a payload of BigPayloadLen bytes
LongTopicLen == 123
BigPayloadLen == 1025
\* packet identifiers taken in SpecOut
MaxIds == 3
\* SpecIds: identifiers taken before it looks at an engine in use, and the
\* identifiers it takes from a new engine or after the counter has wrapped
IdsTaken == 65533
MaxIdCalls == 8
\* SpecCodec: a client identifier of LongClientLen bytes
LongClientLen == 1010
\* SpecBig: the shortest run of bytes 0 that is packed
PackMin == 16           \* bytes given to one mqtt_input call

KeepAlives == {0, 1}            \* config.keep_alive, seconds
Ticks == {500, 1000}            \* elapsed_ms values given to mqtt_timer
Threads == {1, 2}

----------------------------------------------------------------------------
(* Helpers *)

Min(a, b) == IF a < b THEN a ELSE b
Max(a, b) == IF a > b THEN a ELSE b

\* data[i] with the C (0-based) index i
At(data, i) == data[i + 1]

\* the n bytes of data from 0-based offset off
Slice(data, off, n) == SubSeq(data, off + 1, off + n)

\* the marker of a byte read outside what was written (indeterminate value)
Uninit == -1

\* data[i], or an indeterminate byte when i is past the bytes copied
AtOrUninit(data, i) == IF i < Len(data) THEN data[i + 1] ELSE Uninit

\* a handler invocation
Ev(h, x, y, s, p) == [h |-> h, x |-> x, y |-> y, s |-> s, p |-> p]
OnConnection(connected, code) ==
    Ev("on_connection", IF connected THEN 1 ELSE 0, code, <<>>, <<>>)

AllHandlers == {"on_connection", "on_message", "publish_ack",
                "subscribe_ack", "unsubscribe_ack"}

\* the engine as a record
Eng == [state |-> state,
        next_packet_id |-> next_packet_id,
        keep_alive_timer |-> keep_alive_timer,
        waiting_pingresp |-> waiting_pingresp,
        missed_pingresp_count |-> missed_pingresp_count,
        reassembly_buf |-> reassembly_buf,
        reassembly_len |-> reassembly_len,
        reassembly_capacity |-> reassembly_capacity]

SetEng(e) ==
    /\ state' = e.state
    /\ next_packet_id' = e.next_packet_id
    /\ keep_alive_timer' = e.keep_alive_timer
    /\ waiting_pingresp' = e.waiting_pingresp
    /\ missed_pingresp_count' = e.missed_pingresp_count
    /\ reassembly_buf' = e.reassembly_buf
    /\ reassembly_len' = e.reassembly_len
    /\ reassembly_capacity' = e.reassembly_capacity

----------------------------------------------------------------------------
(* The codec: src/src/mqtt_packet.c *)

\* a variant that never continues after the first byte
write_variable_length_one_byte(value) == <<value % 128>>

RECURSIVE write_variable_length(_)
write_variable_length(value) ==
    IF value \div 128 > 0
    THEN <<(value % 128) + 128>> \o write_variable_length(value \div 128)
    ELSE <<value % 128>>

\* [n |-> bytes read (0: error), value |-> decoded value]
RECURSIVE rvl_loop(_, _, _, _)
rvl_loop(buf, len, value, multiplier) ==
    IF len >= 4 THEN [n |-> 0, value |-> value]
    ELSE LET encoded_byte == AtOrUninit(buf, len)
             v == value + (encoded_byte % 128) * multiplier
         IN IF encoded_byte = Uninit THEN [n |-> 0, value |-> value]
            ELSE IF encoded_byte >= 128
                 THEN rvl_loop(buf, len + 1, v, multiplier * 128)
                 ELSE [n |-> len + 1, value |-> v]

read_variable_length(buf) == rvl_loop(buf, 0, 0, 1)

write_string(str) == <<Len(str) \div 256, Len(str) % 256>> \o str

create_pingreq_packet == <<MQTT_PKT_PINGREQ * 16, 0>>

create_disconnect_packet == <<MQTT_PKT_DISCONNECT * 16, 0>>

\* cfg.username and cfg.password are <<>> (NULL) or <<string>>
create_connect_packet(cfg) ==
    IF Len(cfg.client_id) = 0 THEN <<>>
    ELSE LET connect_flags ==
                 (IF cfg.clean_session THEN 2 ELSE 0)
                 + (IF Len(cfg.username) > 0 THEN 128 ELSE 0)
                 + (IF Len(cfg.password) > 0 THEN 64 ELSE 0)
             body ==
                 <<0, 4, 77, 81, 84, 84, 4, connect_flags,
                   cfg.keep_alive \div 256, cfg.keep_alive % 256>>
                 \o write_string(cfg.client_id)
                 \o (IF Len(cfg.username) > 0
                     THEN write_string(cfg.username[1]) ELSE <<>>)
                 \o (IF Len(cfg.password) > 0
                     THEN write_string(cfg.password[1]) ELSE <<>>)
         IN <<MQTT_PKT_CONNECT * 16>>
            \o write_variable_length(Len(body)) \o body

\* message: [topic, payload, qos, retain]; <<>> is the return value 0
create_publish_packet(message, buf_len) ==
    IF buf_len < 10 THEN <<>>
    ELSE IF Len(message.topic) = 0 THEN <<>>
    ELSE <<MQTT_PKT_PUBLISH * 16 + (IF message.retain THEN 1 ELSE 0)>>
         \o write_variable_length(2 + Len(message.topic) + Len(message.payload))
         \o write_string(message.topic)
         \o message.payload

\* the end of create_subscribe_packet and create_unsubscribe_packet: buf is
\* the fixed header byte, one byte left for the remaining length and the
\* variable header and payload; the remaining length lenb is written from
\* buf[1] on, then the remaining_length bytes that start at buf[2] are moved
\* behind it when lenb takes more than one byte
place_remaining_length(buf, lenb) ==
    IF Len(lenb) > 1
    THEN <<buf[1]>> \o lenb
         \o [i \in 1..(Len(buf) - 2) |->
                IF i + 1 <= Len(lenb) THEN lenb[i + 1] ELSE buf[i + 2]]
    ELSE <<buf[1]>> \o lenb \o SubSeq(buf, 3, Len(buf))

\* the loop over the topic-QoS pairs: buf so far (Len(buf) is
\* var_header_pos), <<>> when the QoS byte does not fit
RECURSIVE subscribe_payload(_, _, _, _, _)
subscribe_payload(topics, qos, i, buf, buf_len) ==
    IF i > Len(topics) THEN buf
    ELSE IF Len(buf) + 2 + Len(topics[i]) >= buf_len THEN <<>>
    ELSE subscribe_payload(topics, qos, i + 1,
                           buf \o write_string(topics[i]) \o <<qos[i] % 4>>,
                           buf_len)

subscribe_finish(buf) ==
    IF buf = <<>> THEN <<>>
    ELSE place_remaining_length(buf, write_variable_length(Len(buf) - 2))

create_subscribe_packet(topics, qos, packet_id, buf_len) ==
    IF Len(topics) = 0 \/ buf_len < 10 THEN <<>>
    ELSE subscribe_finish(
             subscribe_payload(topics, qos, 1,
                               <<MQTT_PKT_SUBSCRIBE * 16 + 2, 0,
                                 packet_id \div 256, packet_id % 256>>,
                               buf_len))

\* the loop over the topics of create_unsubscribe_packet
RECURSIVE unsubscribe_payload(_, _, _)
unsubscribe_payload(topics, i, buf) ==
    IF i > Len(topics) THEN buf
    ELSE unsubscribe_payload(topics, i + 1, buf \o write_string(topics[i]))

\* the packet_id argument is not used by the code
create_unsubscribe_packet(topics, packet_id, buf_len) ==
    IF Len(topics) = 0 \/ buf_len < 10 THEN <<>>
    ELSE subscribe_finish(
             unsubscribe_payload(topics, 1, <<MQTT_PKT_UNSUBSCRIBE * 16, 0>>))

----------------------------------------------------------------------------
(* The engine: src/src/mqtt.c *)

\* what a piece of code did: the engine after it, the handler invocations
\* it made and the packets it handed to the send sink, in order
Res(e, events, sent) == [e |-> e, events |-> events, sent |-> sent]

\* a call of an optional handler: nothing when it is not installed
Fire(h, ev) == IF ev.h \in h THEN <<ev>> ELSE <<>>

RECURSIVE gepl_loop(_, _, _, _)
gepl_loop(data, pos, remaining_length, multiplier) ==
    IF pos >= Len(data) THEN 0
    ELSE LET encoded_byte == At(data, pos)
             rl == remaining_length + (encoded_byte % 128) * multiplier
             m == multiplier * 128
         IN IF m > 128 * 128 * 128 THEN 0
            ELSE IF encoded_byte >= 128 THEN gepl_loop(data, pos + 1, rl, m)
            ELSE (pos + 1) + rl

get_expected_packet_length(data) ==
    IF Len(data) < 2 THEN 0 ELSE gepl_loop(data, 1, 0, 1)

ensure_reassembly_capacity(e, needed_capacity) ==
    IF e.reassembly_capacity >= needed_capacity THEN e
    ELSE [e EXCEPT !.reassembly_capacity =
             Max(Max(e.reassembly_capacity * 2, needed_capacity), MinCapacity)]

\* a clear_reassembly_buffer that does nothing
clear_reassembly_buffer_noop(e) == e

clear_reassembly_buffer(e) ==
    IF e.reassembly_capacity > 0
    THEN [e EXCEPT !.reassembly_buf = <<>>,
                   !.reassembly_len = 0,
                   !.reassembly_capacity = 0]
    ELSE e

\* a CONNACK case that reports every refusal as "server unavailable"
process_connack_fixed_code(e, data, h) ==
    IF Len(data) >= 4
    THEN IF At(data, 3) = MQTT_CONN_ACCEPTED
         THEN Res([e EXCEPT !.state = MQTT_STATE_CONNECTED,
                            !.missed_pingresp_count = 0],
                  Fire(h, OnConnection(TRUE, MQTT_CONN_ACCEPTED)), <<>>)
         ELSE Res([e EXCEPT !.state = MQTT_STATE_DISCONNECTED],
                  Fire(h, OnConnection(FALSE, MQTT_CONN_REFUSED_SERVER)), <<>>)
    ELSE Res(e, <<>>, <<>>)

\* case MQTT_PKT_CONNACK
process_connack(e, data, h) ==
    IF Len(data) >= 4
    THEN LET return_code == At(data, 3)
         IN IF return_code = MQTT_CONN_ACCEPTED
            THEN Res([e EXCEPT !.state = MQTT_STATE_CONNECTED,
                               !.missed_pingresp_count = 0],
                     Fire(h, OnConnection(TRUE, MQTT_CONN_ACCEPTED)), <<>>)
            ELSE Res([e EXCEPT !.state = MQTT_STATE_DISCONNECTED],
                     Fire(h, OnConnection(FALSE, return_code)), <<>>)
    ELSE Res(e, <<>>, <<>>)

\* case MQTT_PKT_PUBLISH.  data is the packet as copied into packet_buffer:
\* a read past Len(data) reads what the buffer held before (AtOrUninit).
process_publish(e, data, h) ==
    LET len == Len(data)
        vl == read_variable_length(SubSeq(data, 2, len))
        pos1 == 1 + vl.n
        str_len == AtOrUninit(data, pos1) * 256 + AtOrUninit(data, pos1 + 1)
        topic == [i \in 1..str_len |-> AtOrUninit(data, pos1 + 2 + i - 1)]
        pos2 == pos1 + 2 + str_len
        qos == (At(data, 0) \div 2) % 4
        packet_id == IF qos > 0
                     THEN AtOrUninit(data, pos2) * 256 + AtOrUninit(data, pos2 + 1)
                     ELSE 0
        pos3 == IF qos > 0 THEN pos2 + 2 ELSE pos2
        payload_len == IF pos3 < len THEN len - pos3 ELSE 0
        retain == At(data, 0) % 2
    IN IF len < 4 \/ vl.n = 0 THEN Res(e, <<>>, <<>>)
       ELSE IF str_len + 1 > TopicBufSize THEN Res(e, <<>>, <<>>)
       ELSE IF qos > 0 /\ pos2 + 2 > len THEN Res(e, <<>>, <<>>)
       ELSE Res(e,
                Fire(h, Ev("on_message", qos, retain, topic,
                           Slice(data, pos3, payload_len))),
                IF qos = 1
                THEN << <<MQTT_PKT_PUBACK * 16, 2,
                          packet_id \div 256, packet_id % 256>> >>
                ELSE <<>>)

\* case MQTT_PKT_PUBACK, MQTT_PKT_UNSUBACK
process_ack(e, data, h, name) ==
    IF Len(data) >= 4
    THEN Res(e, Fire(h, Ev(name, At(data, 2) * 256 + At(data, 3), 0, <<>>, <<>>)),
             <<>>)
    ELSE Res(e, <<>>, <<>>)

\* case MQTT_PKT_SUBACK
process_suback(e, data, h) ==
    IF Len(data) >= 5 /\ Len(data) - 4 <= MaxReturnCodes
    THEN Res(e, Fire(h, Ev("subscribe_ack", At(data, 2) * 256 + At(data, 3), 0,
                           Slice(data, 4, Len(data) - 4), <<>>)), <<>>)
    ELSE Res(e, <<>>, <<>>)

\* a PINGRESP case that leaves waiting_pingresp set
process_pingresp_keeps_waiting(e) ==
    Res([e EXCEPT !.missed_pingresp_count = 0], <<>>, <<>>)

\* a PINGRESP case that forgets the missed-ping counter
process_pingresp_keeps_missed(e) ==
    Res([e EXCEPT !.waiting_pingresp = FALSE], <<>>, <<>>)

\* case MQTT_PKT_PINGRESP
process_pingresp(e) ==
    Res([e EXCEPT !.waiting_pingresp = FALSE, !.missed_pingresp_count = 0],
        <<>>, <<>>)

\* a DISCONNECT case that fires no handler
process_disconnect_silent(e, h) ==
    Res([e EXCEPT !.state = MQTT_STATE_DISCONNECTED], <<>>, <<>>)

\* case MQTT_PKT_DISCONNECT
process_disconnect(e, h) ==
    Res([e EXCEPT !.state = MQTT_STATE_DISCONNECTED],
        Fire(h, OnConnection(FALSE, MQTT_CONN_ACCEPTED)), <<>>)

process_packet(e, data, h) ==
    LET packet_type == At(data, 0) \div 16
    IN IF Len(data) < 2 THEN Res(e, <<>>, <<>>)
       ELSE CASE packet_type = MQTT_PKT_CONNACK -> process_connack(e, data, h)
              [] packet_type = MQTT_PKT_PUBLISH -> process_publish(e, data, h)
              [] packet_type = MQTT_PKT_PUBACK -> process_ack(e, data, h, "publish_ack")
              [] packet_type = MQTT_PKT_SUBACK -> process_suback(e, data, h)
              [] packet_type = MQTT_PKT_UNSUBACK ->
                     process_ack(e, data, h, "unsubscribe_ack")
              [] packet_type = MQTT_PKT_PINGRESP -> process_pingresp(e)
              [] packet_type = MQTT_PKT_DISCONNECT -> process_disconnect(e, h)
              [] OTHER -> Res(e, <<>>, <<>>)

----------------------------------------------------------------------------
(* The entry points, each run to completion by one caller *)

\* what a call did, with the value it returned
Ret(r, ret) == [e |-> r.e, events |-> r.events, sent |-> r.sent, ret |-> ret]

\* a mqtt_connect without the test of mqtt->state
mqtt_connect_from_any(e, cfg, sinkok) ==
    LET packet == create_connect_packet(cfg)
    IN IF ~sinkok THEN Ret(Res(e, <<>>, <<packet>>), -1)
       ELSE Ret(Res([e EXCEPT !.state = MQTT_STATE_CONNECTING,
                              !.keep_alive_timer = 0],
                    <<>>, <<packet>>), 0)

\* mqtt_connect; sinkok: the send sink takes the whole packet
mqtt_connect(e, cfg, sinkok) ==
    LET packet == create_connect_packet(cfg)
    IN IF e.state # MQTT_STATE_DISCONNECTED THEN Ret(Res(e, <<>>, <<>>), -1)
       ELSE IF Len(packet) = 0 THEN Ret(Res(e, <<>>, <<>>), -1)
       ELSE IF ~sinkok THEN Ret(Res(e, <<>>, <<packet>>), -1)
       ELSE Ret(Res([e EXCEPT !.state = MQTT_STATE_CONNECTING,
                              !.keep_alive_timer = 0],
                    <<>>, <<packet>>), 0)

\* a mqtt_disconnect that keeps the reassembly buffer
mqtt_disconnect_keeps_buffer(e, h) ==
    IF e.state = MQTT_STATE_DISCONNECTED THEN Ret(Res(e, <<>>, <<>>), -1)
    ELSE Ret(Res([e EXCEPT !.state = MQTT_STATE_DISCONNECTED],
                 Fire(h, OnConnection(FALSE, MQTT_CONN_ACCEPTED)),
                 <<create_disconnect_packet>>), 0)

\* mqtt_disconnect; the sink's answer is not looked at
mqtt_disconnect(e, h) ==
    IF e.state = MQTT_STATE_DISCONNECTED THEN Ret(Res(e, <<>>, <<>>), -1)
    ELSE Ret(Res(clear_reassembly_buffer(
                     [e EXCEPT !.state = MQTT_STATE_DISCONNECTED]),
                 Fire(h, OnConnection(FALSE, MQTT_CONN_ACCEPTED)),
                 <<create_disconnect_packet>>), 0)

\* a mqtt_publish without the test of message->qos
mqtt_publish_any_qos(e, message, sinkok) ==
    IF e.state # MQTT_STATE_CONNECTED THEN Ret(Res(e, <<>>, <<>>), -1)
    ELSE LET required_size ==
                 (1 + 4) + (2 + Len(message.topic)) + Len(message.payload)
             packet == create_publish_packet(message, required_size)
         IN IF Len(packet) = 0 THEN Ret(Res(e, <<>>, <<>>), -1)
            ELSE IF ~sinkok THEN Ret(Res(e, <<>>, <<packet>>), -1)
            ELSE Ret(Res(e, <<>>, <<packet>>), 0)

\* mqtt_publish; the scratch buffer is sized from the message
mqtt_publish(e, message, sinkok) ==
    IF e.state # MQTT_STATE_CONNECTED THEN Ret(Res(e, <<>>, <<>>), -1)
    ELSE IF message.qos # MQTT_QOS_0 THEN Ret(Res(e, <<>>, <<>>), -1)
    ELSE LET required_size ==
                 (1 + 4) + (2 + Len(message.topic)) + Len(message.payload)
             packet == create_publish_packet(message, required_size)
         IN IF Len(packet) = 0 THEN Ret(Res(e, <<>>, <<>>), -1)
            ELSE IF ~sinkok THEN Ret(Res(e, <<>>, <<packet>>), -1)
            ELSE Ret(Res(e, <<>>, <<packet>>), 0)

\* a mqtt_get_packet_id that lets the counter wrap to 0
mqtt_get_packet_id_no_skip(e) ==
    [e |-> [e EXCEPT !.next_packet_id =
               (e.next_packet_id + 1) % PacketIdModulus],
     ret |-> e.next_packet_id]

\* mqtt_get_packet_id: ret is the identifier returned; next_packet_id is a
\* uint16_t
mqtt_get_packet_id(e) ==
    LET incremented == (e.next_packet_id + 1) % PacketIdModulus
    IN [e |-> [e EXCEPT !.next_packet_id =
                   IF incremented = 0 THEN 1 ELSE incremented],
        ret |-> e.next_packet_id]

\* mqtt_subscribe from the call of mqtt_get_packet_id on; id is what that
\* call returned
subscribe_send(id, topics, qos, sinkok) ==
    LET packet == create_subscribe_packet(topics, qos, id.ret, PacketBufSize)
    IN IF Len(packet) = 0 THEN Ret(Res(id.e, <<>>, <<>>), -1)
       ELSE IF ~sinkok THEN Ret(Res(id.e, <<>>, <<packet>>), -1)
       ELSE Ret(Res(id.e, <<>>, <<packet>>), 0)

\* mqtt_subscribe; topics and qos have the same length (count)
mqtt_subscribe(e, topics, qos, sinkok) ==
    IF Len(topics) = 0 THEN Ret(Res(e, <<>>, <<>>), -1)
    ELSE IF e.state # MQTT_STATE_CONNECTED THEN Ret(Res(e, <<>>, <<>>), -1)
    ELSE IF \E i \in 1..Len(topics) : qos[i] # MQTT_QOS_0
    THEN Ret(Res(e, <<>>, <<>>), -1)
    ELSE subscribe_send(mqtt_get_packet_id(e), topics, qos, sinkok)

\* mqtt_unsubscribe
mqtt_unsubscribe(e, topics, sinkok) ==
    IF Len(topics) = 0 THEN Ret(Res(e, <<>>, <<>>), -1)
    ELSE IF e.state # MQTT_STATE_CONNECTED THEN Ret(Res(e, <<>>, <<>>), -1)
    ELSE LET packet == create_unsubscribe_packet(topics, 0, PacketBufSize)
         IN IF Len(packet) = 0 THEN Ret(Res(e, <<>>, <<>>), -1)
            ELSE IF ~sinkok THEN Ret(Res(e, <<>>, <<packet>>), -1)
            ELSE Ret(Res(e, <<>>, <<packet>>), 0)

\* a mqtt_timer that sends the PINGREQ and keeps the accumulator
mqtt_timer_keeps_accumulator(e, cfg, h, elapsed_ms) ==
    LET t == e.keep_alive_timer + elapsed_ms
        keep_alive_ms == cfg.keep_alive * 1000
        missed == (e.missed_pingresp_count + 1) % 256
    IN IF e.state = MQTT_STATE_CONNECTED /\ cfg.keep_alive > 0
       THEN IF t >= keep_alive_ms
            THEN IF ~e.waiting_pingresp
                 THEN Ret(Res([e EXCEPT !.waiting_pingresp = TRUE,
                                        !.keep_alive_timer = t],
                              <<>>, <<create_pingreq_packet>>), 0)
                 ELSE IF missed >= MissedLimit
                      THEN Ret(Res([e EXCEPT !.keep_alive_timer = t,
                                             !.missed_pingresp_count = missed,
                                             !.state = MQTT_STATE_DISCONNECTED],
                                   Fire(h, OnConnection(FALSE,
                                                        MQTT_CONN_REFUSED_SERVER)),
                                   <<>>), 0)
                      ELSE Ret(Res([e EXCEPT !.keep_alive_timer = t,
                                             !.missed_pingresp_count = missed],
                                   <<>>, <<>>), 0)
            ELSE Ret(Res([e EXCEPT !.keep_alive_timer = t], <<>>, <<>>), 0)
       ELSE Ret(Res(e, <<>>, <<>>), 0)

\* mqtt_timer.  keep_alive_timer is a uint32_t; the guard of Timer keeps it
\* under MaxTimer, far from where it wraps.
mqtt_timer(e, cfg, h, elapsed_ms) ==
    LET t == e.keep_alive_timer + elapsed_ms
        keep_alive_ms == cfg.keep_alive * 1000
        missed == (e.missed_pingresp_count + 1) % 256
    IN IF e.state = MQTT_STATE_CONNECTED /\ cfg.keep_alive > 0
       THEN IF t >= keep_alive_ms
            THEN IF ~e.waiting_pingresp
                 THEN Ret(Res([e EXCEPT !.waiting_pingresp = TRUE,
                                        !.keep_alive_timer = 0],
                              <<>>, <<create_pingreq_packet>>), 0)
                 ELSE IF missed >= MissedLimit
                      THEN Ret(Res([e EXCEPT !.keep_alive_timer = t,
                                             !.missed_pingresp_count = missed,
                                             !.state = MQTT_STATE_DISCONNECTED],
                                   Fire(h, OnConnection(FALSE,
                                                        MQTT_CONN_REFUSED_SERVER)),
                                   <<>>), 0)
                      ELSE Ret(Res([e EXCEPT !.keep_alive_timer = t,
                                             !.missed_pingresp_count = missed],
                                   <<>>, <<>>), 0)
            ELSE Ret(Res([e EXCEPT !.keep_alive_timer = t], <<>>, <<>>), 0)
       ELSE Ret(Res(e, <<>>, <<>>), 0)

\* buf[dst] = buf[src]
CopyByte(buf, dst, src) == [buf EXCEPT ![dst + 1] = buf[src + 1]]

\* memcpy(buf, buf + off, n) copying from the last byte down to the first:
\* the bytes of buf after the i highest of the n have been copied
RECURSIVE memcpy_backward(_, _, _, _)
memcpy_backward(buf, off, n, i) ==
    IF i = 0 THEN buf
    ELSE CopyByte(memcpy_backward(buf, off, n, i - 1), n - i, n - i + off)

\* memcpy(mqtt->reassembly_buf, current_data, remaining_len) of mqtt_input,
\* with current_data = work + off.  When work is the reassembly buffer itself
\* (aliased) and the two regions overlap, the behaviour is undefined: a copy
\* that runs forward gives the bytes of the source, one that runs backward
\* (backward) reads bytes it has already overwritten.
save_incomplete(work, off, aliased, backward) ==
    LET n == Len(work) - off
    IN IF aliased /\ 0 < off /\ off < n /\ backward
       THEN SubSeq(memcpy_backward(work, off, n, n), 1, n)
       ELSE Slice(work, off, n)

\* what a turn of the while loop that dispatched the packets dispatched with
\* result r adds in front of the result rest of the later turns
Turn(r, dispatched, rest) ==
    [e |-> rest.e, off |-> rest.off, events |-> r.events \o rest.events,
     sent |-> r.sent \o rest.sent, dispatched |-> dispatched \o rest.dispatched]

\* the while loop of mqtt_input over the working view work from offset off:
\* [e, off, events, sent, dispatched]
RECURSIVE input_loop(_, _, _, _)
input_loop(e, work, off, h) ==
    LET remaining_len == Len(work) - off
        expected_len == get_expected_packet_length(Slice(work, off, remaining_len))
        pkt == Slice(work, off, expected_len)
    IN IF remaining_len = 0 \/ expected_len = 0 \/ remaining_len < expected_len
       THEN [e |-> e, off |-> off, events |-> <<>>, sent |-> <<>>,
             dispatched |-> <<>>]
       ELSE IF expected_len <= MQTT_MAX_PACKET_SIZE
       THEN Turn(process_packet(e, pkt, h), <<pkt>>,
                 input_loop(process_packet(e, pkt, h).e, work,
                            off + expected_len, h))
       ELSE Turn(Res(e, <<>>, <<>>), <<>>,
                 input_loop(e, work, off + expected_len, h))

\* a mqtt_input that returns the number of bytes it dispatched
mqtt_input_returns_dispatched(e, h, data, backward) ==
    IF Len(data) = 0
    THEN [e |-> e, events |-> <<>>, sent |-> <<>>, ret |-> -1, dispatched |-> <<>>]
    ELSE LET aliased == e.reassembly_len > 0
             e1 == IF aliased
                   THEN [ensure_reassembly_capacity(e, e.reassembly_len + Len(data))
                            EXCEPT !.reassembly_len = 0]
                   ELSE e
             work == IF aliased THEN e.reassembly_buf \o data ELSE data
             r == input_loop(e1, work, 0, h)
             e2 == IF r.off < Len(work)
                   THEN [ensure_reassembly_capacity(r.e, Len(work) - r.off)
                            EXCEPT !.reassembly_buf =
                                       save_incomplete(work, r.off, aliased, backward),
                                   !.reassembly_len = Len(work) - r.off]
                   ELSE [r.e EXCEPT !.reassembly_buf = <<>>, !.reassembly_len = 0]
         IN [e |-> e2, events |-> r.events, sent |-> r.sent, ret |-> r.off,
             dispatched |-> r.dispatched]

\* mqtt_input (no allocation fails); backward: see save_incomplete
mqtt_input(e, h, data, backward) ==
    IF Len(data) = 0
    THEN [e |-> e, events |-> <<>>, sent |-> <<>>, ret |-> -1, dispatched |-> <<>>]
    ELSE LET aliased == e.reassembly_len > 0
             e1 == IF aliased
                   THEN [ensure_reassembly_capacity(e, e.reassembly_len + Len(data))
                            EXCEPT !.reassembly_len = 0]
                   ELSE e
             work == IF aliased THEN e.reassembly_buf \o data ELSE data
             r == input_loop(e1, work, 0, h)
             e2 == IF r.off < Len(work)
                   THEN [ensure_reassembly_capacity(r.e, Len(work) - r.off)
                            EXCEPT !.reassembly_buf =
                                       save_incomplete(work, r.off, aliased, backward),
                                   !.reassembly_len = Len(work) - r.off]
                   ELSE [r.e EXCEPT !.reassembly_buf = <<>>, !.reassembly_len = 0]
         IN [e |-> e2, events |-> r.events, sent |-> r.sent, ret |-> Len(data),
             dispatched |-> r.dispatched]

----------------------------------------------------------------------------
(* The environment: what the broker sends *)

CONNACK_OK == <<32, 2, 0, 0>>
CONNACK_REFUSED == <<32, 2, 0, 5>>
PINGRESP == <<208, 0>>
PUBACK_1 == <<64, 2, 0, 1>>
DISCONNECT == <<224, 0>>
PUBLISH_T == <<48, 4, 0, 1, 116, 104>>      \* topic "t", payload "h", QoS 0

InboundPackets ==
    {CONNACK_OK, CONNACK_REFUSED, PINGRESP, PUBACK_1, DISCONNECT, PUBLISH_T}

\* the byte strings of at most n bytes that are whole packets end to end
RECURSIVE PacketStreams(_)
PacketStreams(n) ==
    {<<>>} \cup UNION {{p \o w : w \in PacketStreams(n - Len(p))} :
                          p \in {q \in InboundPackets : Len(q) <= n}}

WholeStreams == PacketStreams(MaxStreamLen) \ {<<>>}

\* what one mqtt_input call is given in Spec: a whole packet or a piece of one
Fragments == {<<32>>, <<2, 0, 0>>}
Inputs == InboundPackets \cup Fragments

\* the whole packets of a byte string, framed by the codec's decoder
RECURSIVE WholePackets(_)
WholePackets(bytes) ==
    LET vl == read_variable_length(SubSeq(bytes, 2, Len(bytes)))
        total == 1 + vl.n + vl.value
    IN IF Len(bytes) < 2 \/ vl.n = 0 \/ Len(bytes) < total THEN <<>>
       ELSE <<SubSeq(bytes, 1, total)>>
            \o WholePackets(SubSeq(bytes, total + 1, Len(bytes)))

----------------------------------------------------------------------------
(* Spec: one caller *)

NoLoc == [op |-> "none", ret |-> 0]

Config(ka) == [client_id |-> <<99>>, username |-> <<>>, password |-> <<>>,
               keep_alive |-> ka, clean_session |-> TRUE]

\* the record of a call: pre is the engine it found
Last(op, elapsed, data, sinkok, r, dispatched) ==
    [op |-> op, elapsed |-> elapsed, data |-> data, sinkok |-> sinkok,
     ret |-> r.ret, sent |-> r.sent, events |-> r.events,
     dispatched |-> dispatched, pre |-> Eng,
     pre_conn |-> conn_elapsed, pre_ping |-> since_ping,
     pre_ticks |-> ping_ticks]

\* mqtt_create leaves this engine
Created == [state |-> MQTT_STATE_DISCONNECTED, next_packet_id |-> 1,
            keep_alive_timer |-> 0, waiting_pingresp |-> FALSE,
            missed_pingresp_count |-> 0, reassembly_buf |-> <<>>,
            reassembly_len |-> 0, reassembly_capacity |-> 0]

\* no call has been made
NoCall == [op |-> "none", elapsed |-> 0, data |-> <<>>, sinkok |-> TRUE,
           ret |-> 0, sent |-> <<>>, events |-> <<>>, dispatched |-> <<>>,
           pre |-> Created, pre_conn |-> 0, pre_ping |-> -1,
           pre_ticks |-> 0]

\* mqtt_create
Init ==
    /\ state = MQTT_STATE_DISCONNECTED
    /\ next_packet_id = 1
    /\ keep_alive_timer = 0
    /\ waiting_pingresp = FALSE
    /\ missed_pingresp_count = 0
    /\ reassembly_buf = <<>>
    /\ reassembly_len = 0
    /\ reassembly_capacity = 0
    /\ lock = 0
    /\ config \in {Config(ka) : ka \in KeepAlives}
    /\ handler = AllHandlers
    /\ last = NoCall
    /\ stream = <<>>
    /\ cursor = 0
    /\ base = Created
    /\ log = <<>>
    /\ dlog = <<>>
    /\ conn_elapsed = 0
    /\ since_ping = -1
    /\ ping_ticks = 0
    /\ unanswered = FALSE
    /\ pc = [t \in Threads |-> "idle"]
    /\ loc = [t \in Threads |-> NoLoc]

\* a tick of elapsed ms finds the keep-alive deadline passed and the
\* PINGREQ unanswered
DeadlineAwaiting(elapsed) ==
    /\ state = MQTT_STATE_CONNECTED
    /\ config.keep_alive > 0
    /\ keep_alive_timer + elapsed >= config.keep_alive * 1000
    /\ waiting_pingresp

\* the observer's clocks after call op that was given elapsed ms (mqtt_timer
\* only), left engine r.e, sent r.sent and dispatched the packets dispatched
Clocks(op, r, elapsed, dispatched) ==
    LET pinged == \E i \in 1..Len(r.sent) : r.sent[i] = create_pingreq_packet
        answered == \E i \in 1..Len(dispatched) :
                        dispatched[i][1] \div 16 = MQTT_PKT_PINGRESP
    IN /\ conn_elapsed' =
              IF r.e.state # MQTT_STATE_CONNECTED THEN 0
              ELSE IF state # MQTT_STATE_CONNECTED THEN 0
              ELSE Min(conn_elapsed + elapsed, config.keep_alive * 1000)
       /\ since_ping' =
              IF ~r.e.waiting_pingresp THEN -1
              ELSE IF pinged THEN 0
              ELSE IF since_ping < 0 THEN since_ping
              ELSE Min(since_ping + elapsed,
                       MissedLimit * config.keep_alive * 1000)
       /\ ping_ticks' =
              IF r.e.state # MQTT_STATE_CONNECTED \/ pinged \/ answered THEN 0
              ELSE IF op = "timer" /\ DeadlineAwaiting(elapsed)
              THEN Min(ping_ticks + 1, MissedLimit)
              ELSE ping_ticks
       /\ unanswered' =
              IF answered THEN FALSE ELSE IF pinged THEN TRUE ELSE unanswered

\* a call that is not fed from the stream ends the stream's observation
NoStream ==
    /\ stream' = <<>>
    /\ cursor' = 0
    /\ base' = Created
    /\ log' = <<>>
    /\ dlog' = <<>>

StreamDone == cursor = Len(stream)

Connect(sinkok) ==
    \E r \in {mqtt_connect(Eng, config, sinkok)} :
       /\ StreamDone
       /\ SetEng(r.e)
       /\ last' = Last("connect", 0, <<>>, sinkok, r, <<>>)
       /\ Clocks("connect", r, 0, <<>>)
       /\ NoStream
       /\ UNCHANGED <<config, handler, thrvars>>

Disconnect(sinkok) ==
    \E r \in {mqtt_disconnect(Eng, handler)} :
       /\ StreamDone
       /\ SetEng(r.e)
       /\ last' = Last("disconnect", 0, <<>>, sinkok, r, <<>>)
       /\ Clocks("disconnect", r, 0, <<>>)
       /\ NoStream
       /\ UNCHANGED <<config, handler, thrvars>>

Timer(elapsed_ms) ==
    \E r \in {mqtt_timer(Eng, config, handler, elapsed_ms)} :
       /\ StreamDone
       /\ keep_alive_timer + elapsed_ms <= MaxTimer
       /\ SetEng(r.e)
       /\ last' = Last("timer", elapsed_ms, <<>>, TRUE, r, <<>>)
       /\ Clocks("timer", r, elapsed_ms, <<>>)
       /\ NoStream
       /\ UNCHANGED <<config, handler, thrvars>>

\* a mqtt_input(data) with result r: the engine, the record of the call and
\* the clocks
InputDone(data, r) ==
    /\ SetEng(r.e)
    /\ last' = Last("input", 0, data, TRUE, r, r.dispatched)
    /\ Clocks("input", r, 0, r.dispatched)
    /\ UNCHANGED <<config, handler, thrvars>>

\* mqtt_input with one of Inputs
Input(data, backward) ==
    \E r \in {mqtt_input(Eng, handler, data, backward)} :
       /\ StreamDone
       /\ Len(r.e.reassembly_buf) <= MaxHeld
       /\ InputDone(data, r)
       /\ NoStream

Next ==
    \/ \E sinkok \in BOOLEAN : Connect(sinkok)
    \/ \E sinkok \in BOOLEAN : Disconnect(sinkok)
    \/ \E elapsed_ms \in Ticks : Timer(elapsed_ms)
    \/ \E data \in Inputs, backward \in BOOLEAN : Input(data, backward)

Spec == Init /\ [][Next]_vars

----------------------------------------------------------------------------
(* SpecStream: one caller, the inbound bytes cut into arbitrary chunks *)

\* the transport starts delivering the bytes s
NewStream(s) ==
    /\ StreamDone
    /\ reassembly_len = 0
    /\ stream' = s
    /\ cursor' = 0
    /\ base' = Eng
    /\ log' = <<>>
    /\ dlog' = <<>>
    /\ last' = NoCall
    /\ UNCHANGED <<engvars, config, handler, conn_elapsed, since_ping,
                   ping_ticks, unanswered, thrvars>>

\* mqtt_input with the next n bytes of the stream
Feed(n, backward) ==
    /\ cursor + n <= Len(stream)
    /\ \E r \in {mqtt_input(Eng, handler, Slice(stream, cursor, n), backward)} :
          /\ InputDone(Slice(stream, cursor, n), r)
          /\ log' = log \o r.events
          /\ dlog' = dlog \o r.dispatched
    /\ cursor' = cursor + n
    /\ UNCHANGED <<stream, base>>

NextStream ==
    \/ Connect(TRUE)
    \/ Timer(1000)
    \/ \E s \in WholeStreams : NewStream(s)
    \/ \E n \in 1..MaxChunk, backward \in BOOLEAN : Feed(n, backward)

\* SpecHealthy: the calls of Spec on a healthy link: the broker's PINGRESP
\* to a PINGREQ is processed before mqtt_timer is given a tick that reaches
\* the keep-alive deadline
HealthyTick(elapsed_ms) ==
    /\ ~(/\ unanswered
         /\ state = MQTT_STATE_CONNECTED
         /\ config.keep_alive > 0
         /\ keep_alive_timer + elapsed_ms >= config.keep_alive * 1000)
    /\ Timer(elapsed_ms)

NextHealthy ==
    \/ \E sinkok \in BOOLEAN : Connect(sinkok)
    \/ \E sinkok \in BOOLEAN : Disconnect(sinkok)
    \/ \E elapsed_ms \in Ticks : HealthyTick(elapsed_ms)
    \/ \E data \in Inputs, backward \in BOOLEAN : Input(data, backward)

SpecHealthy == Init /\ [][NextHealthy]_vars

InitStream == Init /\ config.keep_alive = 1

SpecStream == InitStream /\ [][NextStream]_vars

----------------------------------------------------------------------------
(* SpecConc: two threads.  A step ends where the code takes the spinlock   *)
(* (LOCK spins until mqtt->lock is 0), where it releases it, and where it  *)
(* calls the send sink or a handler.  The observer's variables are idle.   *)

\* what mqtt_input is given in SpecConc
ConcInputs == {CONNACK_OK, PINGRESP, DISCONNECT, PUBACK_1}

Locals(op, data, elapsed) ==
    [op |-> op, data |-> data, elapsed |-> elapsed, aliased |-> FALSE,
     len |-> Len(data), off |-> 0, packet |-> <<>>, pending |-> <<>>, ret |-> 0]

Goto(t, p) == pc' = [pc EXCEPT ![t] = p]
SetLoc(t, l) == loc' = [loc EXCEPT ![t] = l]
Return(t, ret) ==
    /\ pc' = [pc EXCEPT ![t] = "idle"]
    /\ loc' = [loc EXCEPT ![t] = [op |-> loc[t].op, ret |-> ret]]

\* mqtt_connect: the unlocked test of mqtt->state
CallConnect(t) ==
    /\ pc[t] = "idle"
    /\ IF state # MQTT_STATE_DISCONNECTED
       THEN /\ pc' = pc
            /\ loc' = [loc EXCEPT ![t] = [op |-> "connect", ret |-> -1]]
       ELSE /\ Goto(t, "connect_send")
            /\ SetLoc(t, Locals("connect", create_connect_packet(config), 0))
    /\ UNCHANGED <<engvars, lock, config, handler, obsvars>>

\* mqtt_connect: handler.send of the CONNECT packet
ConnectSend(t, sinkok) ==
    /\ pc[t] = "connect_send"
    /\ IF Len(loc[t].data) = 0 \/ ~sinkok
       THEN /\ Return(t, -1)
       ELSE /\ Goto(t, "connect_lock")
            /\ UNCHANGED loc
    /\ UNCHANGED <<engvars, lock, config, handler, obsvars>>

\* mqtt_connect: LOCK
ConnectLock(t) ==
    /\ pc[t] = "connect_lock"
    /\ lock = 0
    /\ lock' = t
    /\ Goto(t, "connect_set")
    /\ UNCHANGED <<engvars, loc, config, handler, obsvars>>

\* mqtt_connect: the locked assignments, UNLOCK and return
ConnectSet(t) ==
    /\ pc[t] = "connect_set"
    /\ SetEng([Eng EXCEPT !.state = MQTT_STATE_CONNECTING, !.keep_alive_timer = 0])
    /\ lock' = 0
    /\ Return(t, 0)
    /\ UNCHANGED <<config, handler, obsvars>>

\* mqtt_disconnect: the unlocked test of mqtt->state
CallDisconnect(t) ==
    /\ pc[t] = "idle"
    /\ IF state = MQTT_STATE_DISCONNECTED
       THEN /\ pc' = pc
            /\ loc' = [loc EXCEPT ![t] = [op |-> "disconnect", ret |-> -1]]
       ELSE /\ Goto(t, "disconnect_send")
            /\ SetLoc(t, Locals("disconnect", create_disconnect_packet, 0))
    /\ UNCHANGED <<engvars, lock, config, handler, obsvars>>

\* mqtt_disconnect: handler.send of the DISCONNECT packet, result unused
DisconnectSend(t) ==
    /\ pc[t] = "disconnect_send"
    /\ Goto(t, "disconnect_lock")
    /\ UNCHANGED <<engvars, lock, loc, config, handler, obsvars>>

\* mqtt_disconnect: LOCK
DisconnectLock(t) ==
    /\ pc[t] = "disconnect_lock"
    /\ lock = 0
    /\ lock' = t
    /\ Goto(t, "disconnect_set")
    /\ UNCHANGED <<engvars, loc, config, handler, obsvars>>

\* mqtt_disconnect: the locked assignments and UNLOCK
DisconnectSet(t) ==
    /\ pc[t] = "disconnect_set"
    /\ SetEng(clear_reassembly_buffer([Eng EXCEPT !.state = MQTT_STATE_DISCONNECTED]))
    /\ lock' = 0
    /\ Goto(t, "disconnect_callback")
    /\ UNCHANGED <<loc, config, handler, obsvars>>

\* mqtt_disconnect: on_connection(false, 0) and return
DisconnectCallback(t) ==
    /\ pc[t] = "disconnect_callback"
    /\ Return(t, 0)
    /\ UNCHANGED <<engvars, lock, config, handler, obsvars>>

\* mqtt_timer: LOCK
TimerLock(t, elapsed_ms) ==
    /\ pc[t] = "idle"
    /\ keep_alive_timer + elapsed_ms <= MaxTimer
    /\ lock = 0
    /\ lock' = t
    /\ Goto(t, "timer_body")
    /\ SetLoc(t, Locals("timer", <<>>, elapsed_ms))
    /\ UNCHANGED <<engvars, config, handler, obsvars>>

\* mqtt_timer: the locked part and UNLOCK
TimerBody(t) ==
    /\ pc[t] = "timer_body"
    /\ \E r \in {mqtt_timer(Eng, config, handler, loc[t].elapsed)} :
       /\ SetEng(r.e)
       /\ lock' = 0
       /\ IF r.sent # <<>> \/ r.events # <<>>
          THEN /\ Goto(t, "timer_out")
               /\ SetLoc(t, [loc[t] EXCEPT !.pending = r.sent \o r.events])
          ELSE /\ Return(t, 0)
       /\ UNCHANGED <<config, handler, obsvars>>

\* mqtt_timer: the PINGREQ send, or on_connection(false, 3), and return
TimerOut(t) ==
    /\ pc[t] = "timer_out"
    /\ Return(t, 0)
    /\ UNCHANGED <<engvars, lock, config, handler, obsvars>>

\* mqtt_input: LOCK
InputLock(t, data) ==
    /\ pc[t] = "idle"
    /\ lock = 0
    /\ lock' = t
    /\ Goto(t, "input_combine")
    /\ SetLoc(t, Locals("input", data, 0))
    /\ UNCHANGED <<engvars, config, handler, obsvars>>

\* mqtt_input: held bytes and new bytes become the working view
InputCombine(t) ==
    /\ pc[t] = "input_combine"
    /\ IF reassembly_len > 0
       THEN /\ SetEng([ensure_reassembly_capacity(Eng, reassembly_len + loc[t].len)
                          EXCEPT !.reassembly_buf =
                                     SubSeq(reassembly_buf, 1, reassembly_len)
                                     \o loc[t].data,
                                 !.reassembly_len = 0])
            /\ SetLoc(t, [loc[t] EXCEPT !.aliased = TRUE,
                                        !.len = reassembly_len + loc[t].len])
       ELSE UNCHANGED <<engvars, loc>>
    /\ Goto(t, "input_loop")
    /\ UNCHANGED <<lock, config, handler, obsvars>>

\* the bytes current_data..current_data+remaining_len as thread t reads them:
\* its argument, or the reassembly buffer as it is now
View(t) ==
    IF loc[t].aliased
    THEN [i \in 1..loc[t].len |-> AtOrUninit(reassembly_buf, i - 1)]
    ELSE loc[t].data

\* mqtt_input: one turn of the while loop, up to UNLOCK before process_packet
InputFrame(t) ==
    LET remaining_len == loc[t].len - loc[t].off
        expected_len ==
            get_expected_packet_length(Slice(View(t), loc[t].off, remaining_len))
    IN /\ pc[t] = "input_loop"
       /\ IF remaining_len = 0 \/ expected_len = 0 \/ remaining_len < expected_len
          THEN /\ Goto(t, "input_save")
               /\ UNCHANGED <<loc, lock>>
          ELSE IF expected_len <= MQTT_MAX_PACKET_SIZE
          THEN /\ Goto(t, "input_dispatch")
               /\ SetLoc(t, [loc[t] EXCEPT !.packet =
                                Slice(View(t), loc[t].off, expected_len)])
               /\ lock' = 0
          ELSE /\ SetLoc(t, [loc[t] EXCEPT !.off = @ + expected_len])
               /\ UNCHANGED <<pc, lock>>
       /\ UNCHANGED <<engvars, config, handler, obsvars>>

\* process_packet takes the lock for CONNACK, PINGRESP and DISCONNECT
NeedsLock(packet) ==
    \/ packet[1] \div 16 = MQTT_PKT_CONNACK /\ Len(packet) >= 4
    \/ packet[1] \div 16 \in {MQTT_PKT_PINGRESP, MQTT_PKT_DISCONNECT}

\* process_packet: LOCK
PacketLock(t) ==
    /\ pc[t] = "input_dispatch"
    /\ NeedsLock(loc[t].packet)
    /\ lock = 0
    /\ lock' = t
    /\ Goto(t, "packet_set")
    /\ UNCHANGED <<engvars, loc, config, handler, obsvars>>

\* a process_packet that calls the handler before UNLOCK
PacketSet_keeps_lock(t) ==
    /\ pc[t] = "packet_set"
    /\ \E r \in {process_packet(Eng, loc[t].packet, handler)} :
       /\ SetEng(r.e)
       /\ lock' = lock
       /\ Goto(t, "packet_callback")
       /\ SetLoc(t, [loc[t] EXCEPT !.pending = r.events \o r.sent])
       /\ UNCHANGED <<config, handler, obsvars>>

\* process_packet: the locked assignments and UNLOCK
PacketSet(t) ==
    /\ pc[t] = "packet_set"
    /\ \E r \in {process_packet(Eng, loc[t].packet, handler)} :
       /\ SetEng(r.e)
       /\ lock' = 0
       /\ Goto(t, "packet_callback")
       /\ SetLoc(t, [loc[t] EXCEPT !.pending = r.events \o r.sent])
       /\ UNCHANGED <<config, handler, obsvars>>

\* process_packet of a packet that changes no field
PacketNoLock(t) ==
    /\ pc[t] = "input_dispatch"
    /\ ~NeedsLock(loc[t].packet)
    /\ \E r \in {process_packet(Eng, loc[t].packet, handler)} :
       /\ Goto(t, "packet_callback")
       /\ SetLoc(t, [loc[t] EXCEPT !.pending = r.events \o r.sent])
       /\ UNCHANGED <<engvars, lock, config, handler, obsvars>>

\* process_packet: the handler call (and the PUBACK send), then return
PacketCallback(t) ==
    /\ pc[t] = "packet_callback"
    /\ Goto(t, "input_relock")
    /\ SetLoc(t, [loc[t] EXCEPT !.pending = <<>>])
    /\ UNCHANGED <<engvars, lock, config, handler, obsvars>>

\* mqtt_input: LOCK after process_packet, and the step past the packet
InputRelock(t) ==
    /\ pc[t] = "input_relock"
    /\ lock = 0
    /\ lock' = t
    /\ Goto(t, "input_loop")
    /\ SetLoc(t, [loc[t] EXCEPT !.off = @ + Len(loc[t].packet), !.packet = <<>>])
    /\ UNCHANGED <<engvars, config, handler, obsvars>>

\* mqtt_input: the bytes left over are kept, UNLOCK and return
InputSave(t, backward) ==
    LET remaining_len == loc[t].len - loc[t].off
    IN /\ pc[t] = "input_save"
       /\ IF remaining_len > 0
          THEN SetEng([ensure_reassembly_capacity(Eng, remaining_len)
                          EXCEPT !.reassembly_buf =
                                     save_incomplete(View(t), loc[t].off,
                                                     loc[t].aliased, backward),
                                 !.reassembly_len = remaining_len])
          ELSE SetEng([Eng EXCEPT !.reassembly_buf = <<>>, !.reassembly_len = 0])
       /\ lock' = 0
       /\ Return(t, Len(loc[t].data))
       /\ UNCHANGED <<config, handler, obsvars>>

NextConc ==
    \E t \in Threads :
        \/ CallConnect(t)
        \/ \E sinkok \in BOOLEAN : ConnectSend(t, sinkok)
        \/ ConnectLock(t)
        \/ ConnectSet(t)
        \/ CallDisconnect(t)
        \/ DisconnectSend(t)
        \/ DisconnectLock(t)
        \/ DisconnectSet(t)
        \/ DisconnectCallback(t)
        \/ \E elapsed_ms \in Ticks : TimerLock(t, elapsed_ms)
        \/ TimerBody(t)
        \/ TimerOut(t)
        \/ \E data \in ConcInputs : InputLock(t, data)
        \/ InputCombine(t)
        \/ InputFrame(t)
        \/ PacketLock(t)
        \/ PacketSet(t)
        \/ PacketNoLock(t)
        \/ PacketCallback(t)
        \/ InputRelock(t)
        \/ \E backward \in BOOLEAN : InputSave(t, backward)

SpecConc == InitStream /\ [][NextConc]_vars

----------------------------------------------------------------------------
(* SpecOut: one caller that also publishes, subscribes, unsubscribes and   *)
(* takes packet identifiers.                                               *)

LongTopic == [i \in 1..LongTopicLen |-> 97]
BigPayload == [i \in 1..BigPayloadLen |-> 0]

\* the topics of mqtt_publish: "t", "a/b"
Topics == {<<116>>, <<97, 47, 98>>}
Payloads == {<<>>, <<7>>, BigPayload}
Message(topic, payload, qos, retain) ==
    [topic |-> topic, payload |-> payload, qos |-> qos, retain |-> retain]

\* QoS 0 messages of every topic and payload, and one retained, one of
\* QoS 1, one of QoS 2, one with an empty topic
Messages ==
    {Message(topic, payload, MQTT_QOS_0, FALSE) :
         topic \in Topics, payload \in Payloads}
    \cup {Message(<<97, 47, 98>>, <<7>>, MQTT_QOS_0, TRUE),
          Message(<<97, 47, 98>>, <<7>>, 1, FALSE),
          Message(<<97, 47, 98>>, <<>>, 2, FALSE),
          Message(<<>>, <<7>>, MQTT_QOS_0, FALSE)}

\* the arguments of mqtt_subscribe: topics and qos, count is their length
Subscriptions ==
    {[topics |-> <<>>, qos |-> <<>>],
     [topics |-> <<<<116>>>>, qos |-> <<0>>],
     [topics |-> <<<<116>>>>, qos |-> <<2>>],
     [topics |-> <<<<116>>, <<97, 47, 98>>>>, qos |-> <<0, 0>>],
     [topics |-> <<<<116>>, <<97, 47, 98>>>>, qos |-> <<0, 1>>],
     [topics |-> <<LongTopic>>, qos |-> <<0>>]}

OutInputs == {CONNACK_OK, DISCONNECT, <<32>>}

\* a call that takes no inbound data: the engine, the record of the call and
\* the clocks
OutDone(op, arg, sinkok, r) ==
    /\ SetEng(r.e)
    /\ last' = Last(op, 0, arg, sinkok, r, <<>>)
    /\ Clocks(op, r, 0, <<>>)
    /\ NoStream
    /\ UNCHANGED <<config, handler, thrvars>>

Publish(message, sinkok) ==
    \E r \in {mqtt_publish(Eng, message, sinkok)} :
       OutDone("publish", message, sinkok, r)

Subscribe(sub, sinkok) ==
    \E r \in {mqtt_subscribe(Eng, sub.topics, sub.qos, sinkok)} :
       /\ next_packet_id <= MaxIds
       /\ OutDone("subscribe", sub, sinkok, r)

Unsubscribe(topics, sinkok) ==
    \E r \in {mqtt_unsubscribe(Eng, topics, sinkok)} :
       OutDone("unsubscribe", topics, sinkok, r)

GetPacketId ==
    \E id \in {mqtt_get_packet_id(Eng)} :
       /\ next_packet_id <= MaxIds
       /\ OutDone("get_packet_id", <<>>, TRUE,
                  Ret(Res(id.e, <<>>, <<>>), id.ret))

NextOut ==
    \/ \E sinkok \in BOOLEAN : Connect(sinkok)
    \/ Disconnect(TRUE)
    \/ Timer(1000)
    \/ \E data \in OutInputs, backward \in BOOLEAN : Input(data, backward)
    \/ \E message \in Messages, sinkok \in BOOLEAN : Publish(message, sinkok)
    \/ \E sub \in Subscriptions, sinkok \in BOOLEAN : Subscribe(sub, sinkok)
    \/ \E sub \in Subscriptions, sinkok \in BOOLEAN :
          Unsubscribe(sub.topics, sinkok)
    \/ GetPacketId

SpecOut == InitStream /\ [][NextOut]_vars

----------------------------------------------------------------------------
(* SpecIds: two threads that call mqtt_get_packet_id, on a new engine or   *)
(* on one whose IdsTaken first identifiers have been taken.                *)

\* the record of the call that took identifier id
TookId(id) ==
    [NoCall EXCEPT !.op = "get_packet_id", !.ret = id,
                   !.pre = [Created EXCEPT !.next_packet_id = id]]

\* mqtt_create, or mqtt_create and IdsTaken calls of mqtt_get_packet_id
InitIds ==
    /\ \E taken \in {0, IdsTaken} :
          /\ next_packet_id = taken + 1
          /\ last = IF taken = 0 THEN NoCall ELSE TookId(taken)
    /\ state = MQTT_STATE_DISCONNECTED
    /\ keep_alive_timer = 0
    /\ waiting_pingresp = FALSE
    /\ missed_pingresp_count = 0
    /\ reassembly_buf = <<>>
    /\ reassembly_len = 0
    /\ reassembly_capacity = 0
    /\ lock = 0
    /\ config = Config(1)
    /\ handler = AllHandlers
    /\ stream = <<>>
    /\ cursor = 0
    /\ base = Created
    /\ log = <<>>
    /\ dlog = <<>>
    /\ conn_elapsed = 0
    /\ since_ping = -1
    /\ ping_ticks = 0
    /\ unanswered = FALSE
    /\ pc = [t \in Threads |-> "idle"]
    /\ loc = [t \in Threads |-> NoLoc]

\* mqtt_get_packet_id: LOCK
IdLock(t) ==
    /\ pc[t] = "idle"
    /\ next_packet_id <= MaxIdCalls \/ next_packet_id > IdsTaken
    /\ lock = 0
    /\ lock' = t
    /\ Goto(t, "id_body")
    /\ SetLoc(t, [op |-> "get_packet_id", ret |-> 0])
    /\ UNCHANGED <<engvars, config, handler, obsvars>>

\* mqtt_get_packet_id: the locked part, UNLOCK and return
IdBody(t) ==
    /\ pc[t] = "id_body"
    /\ \E id \in {mqtt_get_packet_id(Eng)} :
          /\ SetEng(id.e)
          /\ lock' = 0
          /\ Return(t, id.ret)
          /\ last' = Last("get_packet_id", 0, <<>>, TRUE,
                          Ret(Res(id.e, <<>>, <<>>), id.ret), <<>>)
    /\ UNCHANGED <<config, handler, stream, cursor, base, log, dlog,
                   conn_elapsed, since_ping, ping_ticks, unanswered>>

NextIds ==
    \/ \E t \in Threads : IdLock(t)
    \/ \E t \in Threads : IdBody(t)

SpecIds == InitIds /\ [][NextIds]_vars

----------------------------------------------------------------------------
(* SpecBig: one caller; the inbound stream is a packet that declares more  *)
(* than MQTT_MAX_PACKET_SIZE bytes, then a PUBACK.  In the state a long    *)
(* run of n bytes 0 is written as the one element -n: stream, the bytes    *)
(* held in the reassembly buffer and the data of the recorded call are     *)
(* kept packed, and unpacked for the code to work on.                      *)

\* s with its bytes lo+1 .. hi-1, which are 0, written as one element
PackRun(s, lo, hi) ==
    IF hi - lo - 1 < PackMin THEN s
    ELSE SubSeq(s, 1, lo) \o <<lo + 1 - hi>> \o SubSeq(s, hi, Len(s))

\* s with the run of bytes 0 that starts behind its first lo bytes packed;
\* rest: the indices of the bytes behind them that are not 0
PackFrom(s, lo, rest) ==
    IF rest = {} THEN PackRun(s, lo, Len(s) + 1)
    ELSE PackRun(s, lo, CHOOSE hi \in rest : \A i \in rest : hi <= i)

\* s with the run of bytes 0 behind its leading bytes that are not 0 packed
Pack(s) ==
    IF Len(s) <= PackMin \/ \A n \in 0..PackMin : s[n + 1] # 0 THEN s
    ELSE CHOOSE p \in
             {PackFrom(s, lo, {i \in (lo + 1)..Len(s) : s[i] # 0}) :
                  lo \in {n \in 0..PackMin :
                             /\ \A i \in 1..n : s[i] # 0
                             /\ s[n + 1] = 0}} : TRUE

\* the bytes that p stands for
Unpack(p) ==
    IF \A i \in 1..Len(p) : p[i] >= Uninit THEN p
    ELSE LET run == CHOOSE i \in 1..Len(p) : p[i] < Uninit
         IN SubSeq(p, 1, run - 1) \o [i \in 1..(-p[run]) |-> 0]
            \o SubSeq(p, run + 1, Len(p))

\* a PUBLISH packet with remaining_length bytes 0 behind the fixed header
Oversize(remaining_length) ==
    <<MQTT_PKT_PUBLISH * 16>> \o write_variable_length(remaining_length)
    \o [i \in 1..remaining_length |-> 0]

\* the smallest packet over the maximum, whose remaining length takes three
\* bytes, and the smallest packet whose remaining length takes four
BigPackets == {Oversize(MQTT_MAX_PACKET_SIZE - 3), Oversize(128 * 128 * 128)}

\* the length of the stream and of its first packet
StreamLen == Len(Unpack(stream))
FirstLen == StreamLen - Len(PUBACK_1)

\* the engine with the bytes it holds
BigEng == [Eng EXCEPT !.reassembly_buf = Unpack(reassembly_buf)]

\* the transport starts to deliver packet, then a PUBACK; once
BigStream(packet) ==
    /\ stream = <<>>
    /\ reassembly_len = 0
    /\ stream' = Pack(packet \o PUBACK_1)
    /\ cursor' = 0
    /\ base' = Eng
    /\ log' = <<>>
    /\ dlog' = <<>>
    /\ last' = NoCall
    /\ UNCHANGED <<engvars, config, handler, conn_elapsed, since_ping,
                   ping_ticks, unanswered, thrvars>>

\* what the transport delivers next: what is left of the first packet, or
\* of the stream; for the stream of the smaller packet also two bytes (at
\* either end of the first packet) and the first packet but its last byte
BigChunks ==
    {n \in {StreamLen - cursor, FirstLen - cursor} : n > 0}
    \cup {n \in {2, FirstLen - 1 - cursor} :
             /\ n > 0
             /\ FirstLen <= 2 * MQTT_MAX_PACKET_SIZE
             /\ n = 2 => cursor < 6 \/ cursor >= FirstLen - 1}

\* mqtt_input with the next n bytes of the stream
BigFeed(n, backward) ==
    /\ stream # <<>>
    /\ cursor + n <= StreamLen
    /\ \E data \in {Slice(Unpack(stream), cursor, n)} :
       \E r \in {mqtt_input(BigEng, handler, data, backward)} :
          /\ SetEng([r.e EXCEPT !.reassembly_buf = Pack(@)])
          /\ last' = Last("input", 0, Pack(data), TRUE, r, r.dispatched)
          /\ Clocks("input", r, 0, r.dispatched)
          /\ log' = log \o r.events
          /\ dlog' = dlog \o r.dispatched
    /\ cursor' = cursor + n
    /\ UNCHANGED <<stream, base, config, handler, thrvars>>

NextBig ==
    \/ stream = <<>> /\ \E sinkok \in BOOLEAN : Connect(sinkok)
    \/ stream = <<>> /\ \E data \in OutInputs, backward \in BOOLEAN :
                            Input(data, backward)
    \/ \E packet \in BigPackets : BigStream(packet)
    \/ \E n \in BigChunks, backward \in BOOLEAN : BigFeed(n, backward)

SpecBig == InitStream /\ [][NextBig]_vars

----------------------------------------------------------------------------
(* SpecCalls: the two threads of SpecConc also publish, subscribe and       *)
(* unsubscribe.                                                             *)

\* mqtt_publish up to handler.send: the unlocked test of mqtt->state, the
\* QoS test and the serialization
CallPublish(t, message) ==
    /\ pc[t] = "idle"
    /\ \E r \in {mqtt_publish(Eng, message, TRUE)} :
          IF r.sent = <<>>
          THEN /\ pc' = pc
               /\ loc' = [loc EXCEPT ![t] = [op |-> "publish", ret |-> -1]]
          ELSE /\ Goto(t, "out_send")
               /\ SetLoc(t, [op |-> "publish", data |-> r.sent[1], ret |-> 0])
    /\ UNCHANGED <<engvars, lock, config, handler, obsvars>>

\* mqtt_unsubscribe up to handler.send
CallUnsubscribe(t, topics) ==
    /\ pc[t] = "idle"
    /\ \E r \in {mqtt_unsubscribe(Eng, topics, TRUE)} :
          IF r.sent = <<>>
          THEN /\ pc' = pc
               /\ loc' = [loc EXCEPT ![t] = [op |-> "unsubscribe", ret |-> -1]]
          ELSE /\ Goto(t, "out_send")
               /\ SetLoc(t, [op |-> "unsubscribe", data |-> r.sent[1], ret |-> 0])
    /\ UNCHANGED <<engvars, lock, config, handler, obsvars>>

\* mqtt_subscribe up to mqtt_get_packet_id: the tests of the arguments and
\* the unlocked test of mqtt->state
CallSubscribe(t, topics) ==
    /\ pc[t] = "idle"
    /\ next_packet_id <= MaxIds
    /\ IF Len(topics) = 0 \/ state # MQTT_STATE_CONNECTED
       THEN /\ pc' = pc
            /\ loc' = [loc EXCEPT ![t] = [op |-> "subscribe", ret |-> -1]]
       ELSE /\ Goto(t, "subscribe_lock")
            /\ SetLoc(t, [op |-> "subscribe", topics |-> topics, ret |-> 0])
    /\ UNCHANGED <<engvars, lock, config, handler, obsvars>>

\* mqtt_subscribe: LOCK of mqtt_get_packet_id
SubscribeLock(t) ==
    /\ pc[t] = "subscribe_lock"
    /\ lock = 0
    /\ lock' = t
    /\ Goto(t, "subscribe_id")
    /\ UNCHANGED <<engvars, loc, config, handler, obsvars>>

\* mqtt_subscribe: the locked part of mqtt_get_packet_id, UNLOCK, and the
\* serialization with the identifier taken (every topic asks for QoS 0)
SubscribeId(t) ==
    /\ pc[t] = "subscribe_id"
    /\ \E id \in {mqtt_get_packet_id(Eng)} :
       \E r \in {subscribe_send(id, loc[t].topics,
                                [i \in 1..Len(loc[t].topics) |-> MQTT_QOS_0],
                                TRUE)} :
          /\ SetEng(id.e)
          /\ lock' = 0
          /\ IF r.sent = <<>>
             THEN Return(t, -1)
             ELSE /\ Goto(t, "out_send")
                  /\ SetLoc(t, [op |-> "subscribe", data |-> r.sent[1], ret |-> 0])
    /\ UNCHANGED <<config, handler, obsvars>>

\* mqtt_publish, mqtt_subscribe, mqtt_unsubscribe: handler.send of the
\* packet and return
OutSend(t, sinkok) ==
    /\ pc[t] = "out_send"
    /\ Return(t, IF sinkok THEN 0 ELSE -1)
    /\ UNCHANGED <<engvars, lock, config, handler, obsvars>>

NextCalls ==
    \E t \in Threads :
        \/ CallConnect(t)
        \/ ConnectSend(t, TRUE)
        \/ ConnectLock(t)
        \/ ConnectSet(t)
        \/ CallDisconnect(t)
        \/ DisconnectSend(t)
        \/ DisconnectLock(t)
        \/ DisconnectSet(t)
        \/ DisconnectCallback(t)
        \/ TimerLock(t, 1000)
        \/ TimerBody(t)
        \/ TimerOut(t)
        \/ \E data \in {CONNACK_OK, PUBACK_1} : InputLock(t, data)
        \/ InputCombine(t)
        \/ InputFrame(t)
        \/ PacketLock(t)
        \/ PacketSet(t)
        \/ PacketNoLock(t)
        \/ PacketCallback(t)
        \/ InputRelock(t)
        \/ InputSave(t, FALSE)
        \/ \E qos \in {0, 1} :
              CallPublish(t, Message(<<97, 47, 98>>, <<7>>, qos, FALSE))
        \/ \E topics \in {<< <<116>> >>, <<>>} : CallUnsubscribe(t, topics)
        \/ \E topics \in {<< <<116>> >>, <<>>} : CallSubscribe(t, topics)
        \/ SubscribeLock(t)
        \/ SubscribeId(t)
        \/ \E sinkok \in BOOLEAN : OutSend(t, sinkok)

SpecCalls == InitStream /\ [][NextCalls]_vars

----------------------------------------------------------------------------
(* SpecInputs: on a new engine each of the two threads calls mqtt_input     *)
(* once.  The data of the calls have different lengths, so that the value   *)
(* a call returned tells what it was given.                                 *)

OnceInputs == {<<32>>, <<2, 0, 0>>, PUBACK_1, PUBACK_1 \o <<32>>}

NextInputs ==
    \E t \in Threads :
        \/ loc[t].op = "none" /\ \E data \in OnceInputs : InputLock(t, data)
        \/ InputCombine(t)
        \/ InputFrame(t)
        \/ PacketLock(t)
        \/ PacketSet(t)
        \/ PacketNoLock(t)
        \/ PacketCallback(t)
        \/ InputRelock(t)
        \/ \E backward \in BOOLEAN : InputSave(t, backward)

SpecInputs == InitStream /\ [][NextInputs]_vars

----------------------------------------------------------------------------
(* SpecAlias: the two threads call mqtt_connect, mqtt_disconnect and        *)
(* mqtt_input; the broker's bytes come as the first byte of a PUBACK and    *)
(* then its other bytes with the first byte of the next, so that a call     *)
(* works in the reassembly buffer and has bytes left behind the packet it   *)
(* dispatches.                                                              *)

AliasInputs == {<<64>>, <<2, 0, 1, 64>>}

NextAlias ==
    \E t \in Threads :
        \/ CallConnect(t)
        \/ ConnectSend(t, TRUE)
        \/ ConnectLock(t)
        \/ ConnectSet(t)
        \/ CallDisconnect(t)
        \/ DisconnectSend(t)
        \/ DisconnectLock(t)
        \/ DisconnectSet(t)
        \/ DisconnectCallback(t)
        \/ \E data \in AliasInputs :
              /\ reassembly_len + Len(data) <= Len(PUBACK_1) + 1
              /\ InputLock(t, data)
        \/ InputCombine(t)
        \/ InputFrame(t)
        \/ PacketNoLock(t)
        \/ PacketCallback(t)
        \/ InputRelock(t)
        \/ \E backward \in BOOLEAN : InputSave(t, backward)

SpecAlias == InitStream /\ [][NextAlias]_vars

----------------------------------------------------------------------------
(* SpecFair: the two threads call mqtt_input and mqtt_timer again and       *)
(* again.  A thread that is inside a call keeps running: a step that does   *)
(* not wait for the lock is taken (weak fairness).  LOCK is a loop around   *)
(* an atomic test-and-set, so a thread inside it tries again and again and  *)
(* takes the lock if it is free again and again (strong fairness); weak     *)
(* fairness would let the other thread take it every time.                  *)

NextFair ==
    \E t \in Threads :
        \/ TimerLock(t, 1000)
        \/ TimerBody(t)
        \/ TimerOut(t)
        \/ \E data \in {CONNACK_OK, PINGRESP, PUBACK_1} : InputLock(t, data)
        \/ InputCombine(t)
        \/ InputFrame(t)
        \/ PacketLock(t)
        \/ PacketSet(t)
        \/ PacketNoLock(t)
        \/ PacketCallback(t)
        \/ InputRelock(t)
        \/ InputSave(t, FALSE)

SpecFair ==
    /\ InitStream
    /\ [][NextFair]_vars
    /\ \A t \in Threads :
          /\ WF_vars(\/ TimerBody(t)
                     \/ TimerOut(t)
                     \/ InputCombine(t)
                     \/ InputFrame(t)
                     \/ PacketSet(t)
                     \/ PacketNoLock(t)
                     \/ PacketCallback(t)
                     \/ InputSave(t, FALSE))
          /\ SF_vars(PacketLock(t) \/ InputRelock(t))

----------------------------------------------------------------------------
(* SpecCodec: the serializers are called with a destination of buf_len      *)
(* bytes.  Beside the packet returned (<<>> for 0) the call records its     *)
(* extent: the number of leading bytes of buf that hold every byte it       *)
(* wrote, one more than the highest index written.                          *)

\* create_connect_packet: pos before the memmove that closes the gap
connect_extent(cfg) ==
    1 + 4 + 10 + (2 + Len(cfg.client_id))
    + (IF Len(cfg.username) > 0 THEN 2 + Len(cfg.username[1]) ELSE 0)
    + (IF Len(cfg.password) > 0 THEN 2 + Len(cfg.password[1]) ELSE 0)

\* create_publish_packet: pos before the memmove that closes the gap
publish_extent(message) ==
    1 + 4 + (2 + Len(message.topic)) + Len(message.payload)

\* create_subscribe_packet from topic i on: write_string writes the topic
\* before var_header_pos is compared with buf_len; in the end the memmove
\* moves the remaining_length bytes up when the length takes several bytes
RECURSIVE subscribe_extent(_, _, _, _)
subscribe_extent(topics, i, var_header_pos, buf_len) ==
    IF i > Len(topics)
    THEN Max(var_header_pos,
             1 + Len(write_variable_length(var_header_pos - 2))
               + (var_header_pos - 2))
    ELSE IF var_header_pos + 2 + Len(topics[i]) >= buf_len
    THEN var_header_pos + 2 + Len(topics[i])
    ELSE subscribe_extent(topics, i + 1,
                          var_header_pos + 2 + Len(topics[i]) + 1, buf_len)

\* create_unsubscribe_packet from topic i on: no comparison with buf_len
RECURSIVE unsubscribe_extent(_, _, _)
unsubscribe_extent(topics, i, var_header_pos) ==
    IF i > Len(topics)
    THEN Max(var_header_pos,
             1 + Len(write_variable_length(var_header_pos - 2))
               + (var_header_pos - 2))
    ELSE unsubscribe_extent(topics, i + 1,
                            var_header_pos + 2 + Len(topics[i]))

\* the configurations, with a long client identifier and with credentials
CodecConfigs ==
    {Config(1),
     [Config(1) EXCEPT !.client_id = [i \in 1..LongClientLen |-> 99]],
     [Config(1) EXCEPT !.username = <<<<117>>>>, !.password = <<<<112>>>>],
     [Config(1) EXCEPT !.client_id = <<>>]}

\* the sizes of the destination: under the least accepted, the least
\* accepted, a small one, and that of mqtt_connect and mqtt_subscribe
BufLens == {9, 10, 32, PacketBufSize}

\* the record of a call of a serializer
Serialized(op, arg, buf_len, ret, extent) ==
    [op |-> op, arg |-> arg, buf_len |-> buf_len, ret |-> ret,
     extent |-> extent]

CreateConnect(cfg, buf_len) ==
    /\ last' = Serialized("create_connect_packet", cfg, buf_len,
                        IF buf_len < 10 THEN <<>>
                        ELSE create_connect_packet(cfg),
                        IF buf_len < 10 \/ Len(cfg.client_id) = 0 THEN 0
                        ELSE connect_extent(cfg))
    /\ UNCHANGED <<engvars, lock, config, handler, stream, cursor, base, log,
                   dlog, conn_elapsed, since_ping, ping_ticks, unanswered,
                   thrvars>>

CreatePublish(message, buf_len) ==
    /\ last' = Serialized("create_publish_packet", message, buf_len,
                        create_publish_packet(message, buf_len),
                        IF buf_len < 10 \/ Len(message.topic) = 0 THEN 0
                        ELSE publish_extent(message))
    /\ UNCHANGED <<engvars, lock, config, handler, stream, cursor, base, log,
                   dlog, conn_elapsed, since_ping, ping_ticks, unanswered,
                   thrvars>>

CreateSubscribe(sub, packet_id, buf_len) ==
    /\ last' = Serialized("create_subscribe_packet",
                        [topics |-> sub.topics, qos |-> sub.qos,
                         packet_id |-> packet_id], buf_len,
                        create_subscribe_packet(sub.topics, sub.qos, packet_id,
                                                buf_len),
                        IF buf_len < 10 \/ Len(sub.topics) = 0 THEN 0
                        ELSE subscribe_extent(sub.topics, 1, 4, buf_len))
    /\ UNCHANGED <<engvars, lock, config, handler, stream, cursor, base, log,
                   dlog, conn_elapsed, since_ping, ping_ticks, unanswered,
                   thrvars>>

CreateUnsubscribe(topics, packet_id, buf_len) ==
    /\ last' = Serialized("create_unsubscribe_packet",
                        [topics |-> topics, packet_id |-> packet_id], buf_len,
                        create_unsubscribe_packet(topics, packet_id, buf_len),
                        IF buf_len < 10 \/ Len(topics) = 0 THEN 0
                        ELSE unsubscribe_extent(topics, 1, 2))
    /\ UNCHANGED <<engvars, lock, config, handler, stream, cursor, base, log,
                   dlog, conn_elapsed, since_ping, ping_ticks, unanswered,
                   thrvars>>

\* the least and the greatest value of each length of the encoding
LengthValues ==
    {0, 127, 128, 16383, 16384, 2097151, 2097152, 268435455}

\* encodings of one to four bytes, and two whose fourth byte continues
LengthEncodings ==
    {<<0>>, <<127>>, <<128, 1>>, <<255, 127>>, <<128, 128, 1>>,
     <<255, 255, 127>>, <<128, 128, 128, 1>>, <<255, 255, 255, 127>>,
     <<128, 128, 128, 128, 1>>, <<255, 255, 255, 255, 127>>}

\* write_variable_length of a value into a buffer, then
\* read_variable_length of that buffer
WriteReadLength(value) ==
    /\ \E written \in {write_variable_length(value)} :
          last' = [op |-> "write_variable_length", arg |-> value,
                   written |-> written,
                   read |-> read_variable_length(written)]
    /\ UNCHANGED <<engvars, lock, config, handler, stream, cursor, base, log,
                   dlog, conn_elapsed, since_ping, ping_ticks, unanswered,
                   thrvars>>

\* read_variable_length of the bytes a peer sent
ReadLength(buf) ==
    /\ last' = [op |-> "read_variable_length", arg |-> buf,
                read |-> read_variable_length(buf)]
    /\ UNCHANGED <<engvars, lock, config, handler, stream, cursor, base, log,
                   dlog, conn_elapsed, since_ping, ping_ticks, unanswered,
                   thrvars>>

\* the held bytes get_expected_packet_length is given: a first byte and an
\* encoding, whole or cut short, with or without bytes behind it
Headers ==
    {<<48>> \o enc : enc \in LengthEncodings}
    \cup {<<48>> \o enc \o <<0, 1, 116>> : enc \in LengthEncodings}
    \cup {<<>>, <<48>>, <<48, 128>>, <<48, 128, 128>>, <<48, 128, 128, 128>>}

\* get_expected_packet_length of the held bytes
ExpectedLength(data) ==
    /\ last' = [op |-> "get_expected_packet_length", arg |-> data,
                ret |-> get_expected_packet_length(data)]
    /\ UNCHANGED <<engvars, lock, config, handler, stream, cursor, base, log,
                   dlog, conn_elapsed, since_ping, ping_ticks, unanswered,
                   thrvars>>

NextCodec ==
    \/ \E value \in LengthValues : WriteReadLength(value)
    \/ \E buf \in LengthEncodings : ReadLength(buf)
    \/ \E data \in Headers : ExpectedLength(data)
    \/ \E cfg \in CodecConfigs, buf_len \in BufLens : CreateConnect(cfg, buf_len)
    \/ \E message \in Messages, buf_len \in BufLens :
          CreatePublish(message, buf_len)
    \/ \E sub \in Subscriptions, packet_id \in {1, 258}, buf_len \in BufLens :
          CreateSubscribe(sub, packet_id, buf_len)
    \/ \E sub \in Subscriptions, packet_id \in {1, 258}, buf_len \in BufLens :
          CreateUnsubscribe(sub.topics, packet_id, buf_len)

SpecCodec == InitStream /\ [][NextCodec]_vars

----------------------------------------------------------------------------
(* SpecPackets: one caller; the broker sends packets of every type, well   *)
(* formed, too short for their type, or of a type the client does not      *)
(* take, alone or with a PUBACK behind them.                                *)

SUBACK_2 == <<144, 4, 0, 2, 0, 0>>              \* packet id 2, codes 0 0
PUBLISH_QOS1 == <<50, 6, 0, 1, 116, 0, 7, 104>> \* topic "t", id 7, payload "h"

\* a SUBACK of packet id 3 with count return codes 0, 1, 2, 0, ...
Suback(count) == <<144, count + 2, 0, 3>> \o [i \in 1..count |-> (i - 1) % 3]

\* a PUBLISH of QoS 0 whose topic length prefix (5) runs past its end
PUBLISH_PAST == <<48, 3, 0, 5, 116>>

\* packets that fail the length checks of process_packet
TooShort ==
    {<<32, 0>>, <<32, 1, 0>>, <<64, 1, 0>>, <<176, 1, 0>>, <<144, 2, 0, 1>>,
     <<48, 1, 0>>, <<50, 3, 0, 5, 116>>}

Malformed == TooShort \cup {PUBLISH_PAST}

\* what one mqtt_input call is given in SpecPackets
PacketInputs ==
    InboundPackets \cup Fragments \cup Malformed
    \cup {m \o PUBACK_1 : m \in Malformed}
    \cup {SUBACK_2, PUBLISH_QOS1, Suback(MaxReturnCodes),
          Suback(MaxReturnCodes + 1),
          <<144, 132, 0, 0, 2, 1, 0>>,        \* SUBACK of packet id 2, codes
                                              \* 1 0, length 4 on two bytes
          <<176, 2, 0, 1>>,                   \* UNSUBACK of packet id 1
          <<52, 6, 0, 1, 116, 0, 7, 104>>,    \* PUBLISH_QOS1 with QoS 2
          <<80, 2, 0, 1>>,                    \* PUBREC: no branch takes it
          <<240, 0>>,                         \* packet type 15
          <<>>}                               \* len == 0

NextPackets ==
    \/ \E sinkok \in BOOLEAN : Connect(sinkok)
    \/ Disconnect(TRUE)
    \/ Timer(1000)
    \/ \E data \in PacketInputs, backward \in BOOLEAN : Input(data, backward)

SpecPackets == InitStream /\ [][NextPackets]_vars

----------------------------------------------------------------------------
(* SpecRouting: the engine is created with some of the optional handlers   *)
(* installed; the broker sends whole PUBLISH, PUBACK, SUBACK and UNSUBACK  *)
(* packets, alone or with a PUBACK or a PUBLISH behind them.               *)

\* a PUBLISH of QoS 0, not retained: a topic of topic_len bytes "a", the
\* payload "h"
PublishOf(topic_len) ==
    <<MQTT_PKT_PUBLISH * 16>> \o write_variable_length(2 + topic_len + 1)
    \o <<topic_len \div 256, topic_len % 256>>
    \o [i \in 1..topic_len |-> 97] \o <<104>>

RoutedPackets ==
    {PUBLISH_T, PUBLISH_QOS1, PublishOf(TopicBufSize - 1),
     PublishOf(TopicBufSize), PUBACK_1, SUBACK_2, Suback(MaxReturnCodes),
     <<176, 2, 0, 1>>}

\* the handler structures given to mqtt_create: all the optional handlers,
\* none, and all but one
HandlerChoices ==
    {AllHandlers, {}} \cup {AllHandlers \ {h} : h \in AllHandlers}

\* mqtt_create: the handler structure is copied into the engine
Create(h) ==
    /\ last = NoCall
    /\ handler' = h
    /\ UNCHANGED <<engvars, config, obsvars, thrvars>>

NextRouting ==
    \/ \E h \in HandlerChoices : Create(h)
    \/ Connect(TRUE)
    \/ Timer(1000)
    \/ Input(CONNACK_OK, FALSE)
    \/ \E data \in RoutedPackets : Input(data, FALSE)
    \/ \E first \in RoutedPackets, second \in {PUBACK_1, PUBLISH_T} :
          Input(first \o second, FALSE)

SpecRouting == InitStream /\ [][NextRouting]_vars

----------------------------------------------------------------------------
(* Properties of Spec *)

\* the connection state, counters and held bytes of engine e
Session(e) ==
    [state |-> e.state, next_packet_id |-> e.next_packet_id,
     keep_alive_timer |-> e.keep_alive_timer,
     waiting_pingresp |-> e.waiting_pingresp,
     missed_pingresp_count |-> e.missed_pingresp_count,
     held |-> SubSeq(e.reassembly_buf, 1, e.reassembly_len)]

\* C3: mqtt_connect returns 0 only from Disconnected, and then it has handed
\* exactly one packet, the CONNECT packet of the configuration, to the send
\* sink, the state is Connecting and the keep-alive accumulator is 0; called
\* in Connecting or Connected it returns -1, sends nothing and changes no
\* field of the engine.
C3_ConnectContract ==
    last.op = "connect" =>
        /\ last.ret = 0 =>
               /\ last.pre.state = MQTT_STATE_DISCONNECTED
               /\ last.sent = <<create_connect_packet(config)>>
               /\ last.sent[1][1] \div 16 = MQTT_PKT_CONNECT
               /\ state = MQTT_STATE_CONNECTING
               /\ keep_alive_timer = 0
        /\ last.pre.state \in {MQTT_STATE_CONNECTING, MQTT_STATE_CONNECTED} =>
               /\ last.ret = -1
               /\ last.sent = <<>>
               /\ Eng = last.pre

\* a successful mqtt_connect that found a keep-alive accumulator left over
\* from an earlier session
C3_Witness ==
    /\ last.op = "connect"
    /\ last.ret = 0
    /\ last.pre.keep_alive_timer > 0
    /\ state = MQTT_STATE_CONNECTING

\* C4: whenever a call leaves the state Connected that did not find it
\* Connected, the call is a mqtt_input that found the state Connecting and
\* dispatched an accepted CONNACK, connection-changed(true, 0) was fired and
\* the missed-ping counter is 0.
C4_ConnectedOnlyFromConnecting ==
    (state = MQTT_STATE_CONNECTED /\ last.pre.state # MQTT_STATE_CONNECTED) =>
        /\ last.op = "input"
        /\ last.pre.state = MQTT_STATE_CONNECTING
        /\ \E i \in 1..Len(last.dispatched) : last.dispatched[i] = CONNACK_OK
        /\ \E i \in 1..Len(last.events) :
               last.events[i] = OnConnection(TRUE, MQTT_CONN_ACCEPTED)
        /\ missed_pingresp_count = 0

\* C6: with keep-alive K > 0, the mqtt_timer tick that brings the time
\* elapsed since the state became Connected from below K*1000 ms to K*1000
\* ms or more hands exactly one packet, a PINGREQ, to the send sink.
C6_FirstDeadlineSendsPingreq ==
    (/\ last.op = "timer"
     /\ last.pre.state = MQTT_STATE_CONNECTED
     /\ config.keep_alive > 0
     /\ last.pre_conn < config.keep_alive * 1000
     /\ last.pre_conn + last.elapsed >= config.keep_alive * 1000)
    => last.sent = <<create_pingreq_packet>>

\* C7: a tick that finds the state Connected, the keep-alive deadline passed
\* and the PINGREQ unanswered is the first, second or third such tick since
\* the PINGREQ was sent; the third leaves the state Disconnected and fires
\* connection-changed(false, 3) once, the first and second leave the state
\* Connected, fire nothing and add one to the missed-ping counter.
C7_ThirdTickEscalates ==
    (/\ last.op = "timer"
     /\ last.pre.state = MQTT_STATE_CONNECTED
     /\ config.keep_alive > 0
     /\ last.pre.waiting_pingresp
     /\ last.pre.keep_alive_timer + last.elapsed >= config.keep_alive * 1000)
    => IF last.pre_ticks + 1 >= MissedLimit
       THEN /\ state = MQTT_STATE_DISCONNECTED
            /\ last.events = <<OnConnection(FALSE, MQTT_CONN_REFUSED_SERVER)>>
       ELSE /\ state = MQTT_STATE_CONNECTED
            /\ last.events = <<>>
            /\ missed_pingresp_count = last.pre.missed_pingresp_count + 1

\* C8: when a mqtt_timer tick takes the state from Connected to Disconnected,
\* the ticks since the PINGREQ was sent have reported 3*K*1000 ms or more.
C8_EscalationPaced ==
    (/\ last.op = "timer"
     /\ last.pre.state = MQTT_STATE_CONNECTED
     /\ state = MQTT_STATE_DISCONNECTED)
    => since_ping >= MissedLimit * config.keep_alive * 1000

\* C9: a mqtt_input that dispatches one PINGRESP leaves awaiting-pingresp
\* clear and the missed-ping counter 0, fires no handler, sends nothing and
\* leaves the connection state as it found it.
C9_PingrespClears ==
    (last.op = "input" /\ last.dispatched = <<PINGRESP>>) =>
        /\ ~waiting_pingresp
        /\ missed_pingresp_count = 0
        /\ last.events = <<>>
        /\ last.sent = <<>>
        /\ state = last.pre.state

\* a PINGRESP dispatched with awaiting-pingresp set and two pings missed
C9_Witness ==
    /\ last.op = "input"
    /\ last.dispatched = <<PINGRESP>>
    /\ last.pre.waiting_pingresp
    /\ last.pre.missed_pingresp_count = 2
    /\ last.pre.state = MQTT_STATE_CONNECTED

\* C10: mqtt_disconnect called in Connecting or Connected returns 0 whatever
\* the send sink answers, has handed one DISCONNECT packet to the sink, leaves
\* the state Disconnected and the reassembly buffer empty and released, and
\* has fired connection-changed(false, 0) once and nothing else; called in
\* Disconnected it returns -1, sends nothing, fires nothing and changes no
\* field.
C10_DisconnectContract ==
    last.op = "disconnect" =>
        IF last.pre.state \in {MQTT_STATE_CONNECTING, MQTT_STATE_CONNECTED}
        THEN /\ last.ret = 0
             /\ last.sent = <<create_disconnect_packet>>
             /\ state = MQTT_STATE_DISCONNECTED
             /\ reassembly_len = 0
             /\ reassembly_buf = <<>>
             /\ reassembly_capacity = 0
             /\ last.events = <<OnConnection(FALSE, MQTT_CONN_ACCEPTED)>>
        ELSE /\ last.ret = -1
             /\ last.sent = <<>>
             /\ last.events = <<>>
             /\ Eng = last.pre

\* a mqtt_disconnect whose send failed, called with bytes of an incomplete
\* packet held
C10_Witness ==
    /\ last.op = "disconnect"
    /\ ~last.sinkok
    /\ last.ret = 0
    /\ last.pre.reassembly_len > 0
    /\ state = MQTT_STATE_DISCONNECTED

\* the bytes of the packets, end to end
RECURSIVE Flatten(_)
Flatten(packets) ==
    IF packets = <<>> THEN <<>> ELSE Head(packets) \o Flatten(Tail(packets))

\* C11: once mqtt_disconnect has returned 0 the reassembly buffer holds no
\* byte, and a mqtt_input called next, whatever its data, dispatches the
\* whole packets that its own data starts with and holds the rest of its own
\* data, nothing else.
C11_DisconnectCleanup ==
    (last.op = "disconnect" /\ last.ret = 0) =>
        /\ reassembly_len = 0
        /\ reassembly_buf = <<>>
        /\ \A data \in Inputs, backward \in BOOLEAN :
               \E r \in {mqtt_input(Eng, handler, data, backward)} :
                  /\ r.dispatched = WholePackets(data)
                  /\ Flatten(r.dispatched)
                         \o SubSeq(r.e.reassembly_buf, 1, r.e.reassembly_len)
                     = data

\* a mqtt_disconnect that returned 0 and found the first byte of a CONNACK
\* held
C11_Witness ==
    /\ last.op = "disconnect"
    /\ last.ret = 0
    /\ last.pre.reassembly_len = 1
    /\ last.pre.reassembly_buf = <<32>>
    /\ reassembly_len = 0

\* C12: a mqtt_input that dispatches one CONNACK with a return code other
\* than 0 leaves the state Disconnected, whatever it was, and has fired
\* connection-changed(false, code) with that code, once, and nothing else.
C12_RefusedConnack ==
    (/\ last.op = "input"
     /\ Len(last.dispatched) = 1
     /\ last.dispatched[1][1] \div 16 = MQTT_PKT_CONNACK
     /\ Len(last.dispatched[1]) >= 4
     /\ last.dispatched[1][4] # MQTT_CONN_ACCEPTED)
    => /\ state = MQTT_STATE_DISCONNECTED
       /\ last.events = <<OnConnection(FALSE, last.dispatched[1][4])>>

\* a refused CONNACK dispatched while the state was Connecting
C12_Witness ==
    /\ last.op = "input"
    /\ last.dispatched = <<CONNACK_REFUSED>>
    /\ last.pre.state = MQTT_STATE_CONNECTING
    /\ state = MQTT_STATE_DISCONNECTED

\* C13: a mqtt_input that finds the state Connected and dispatches one
\* DISCONNECT leaves the state Disconnected and has fired
\* connection-changed(false, 0) once and nothing else.
C13_InboundDisconnect ==
    (/\ last.op = "input"
     /\ last.pre.state = MQTT_STATE_CONNECTED
     /\ last.dispatched = <<DISCONNECT>>)
    => /\ state = MQTT_STATE_DISCONNECTED
       /\ last.events = <<OnConnection(FALSE, MQTT_CONN_ACCEPTED)>>

\* a DISCONNECT dispatched while the state was Connected
C13_Witness ==
    /\ last.op = "input"
    /\ last.pre.state = MQTT_STATE_CONNECTED
    /\ last.dispatched = <<DISCONNECT>>
    /\ state = MQTT_STATE_DISCONNECTED

\* the tick found the state Connected, a keep-alive, no PINGREQ unanswered
\* and the accumulator, with the elapsed time added, at the deadline
PingreqDue ==
    /\ last.pre.state = MQTT_STATE_CONNECTED
    /\ config.keep_alive > 0
    /\ ~last.pre.waiting_pingresp
    /\ last.pre.keep_alive_timer + last.elapsed >= config.keep_alive * 1000

\* C26: mqtt_timer hands a PINGREQ to the send sink exactly when the state
\* is Connected, the keep-alive K is positive, no PINGREQ is unanswered and
\* the accumulated elapsed time reaches K*1000 ms; it then sets
\* waiting_pingresp and resets the accumulator to 0.  When the state is not
\* Connected, or K = 0, or the accumulator stays below the deadline, it
\* sends nothing, fires no handler and changes neither the flags nor the
\* state.
C26_PingreqRule ==
    last.op = "timer" =>
        /\ last.sent = IF PingreqDue THEN <<create_pingreq_packet>> ELSE <<>>
        /\ PingreqDue =>
              /\ waiting_pingresp
              /\ keep_alive_timer = 0
        /\ (\/ last.pre.state # MQTT_STATE_CONNECTED
            \/ config.keep_alive = 0
            \/ last.pre.keep_alive_timer + last.elapsed
                   < config.keep_alive * 1000) =>
              /\ last.sent = <<>>
              /\ last.events = <<>>
              /\ waiting_pingresp = last.pre.waiting_pingresp
              /\ missed_pingresp_count = last.pre.missed_pingresp_count
              /\ state = last.pre.state

\* a tick of 500 ms found 500 ms accumulated and sent the PINGREQ
C26_Witness ==
    /\ last.op = "timer"
    /\ last.pre.keep_alive_timer = 500
    /\ last.elapsed = 500
    /\ last.sent = <<create_pingreq_packet>>
    /\ keep_alive_timer = 0

\* C30: in every reachable state the missed-ping counter is in 0..3 and is
\* under 3 while the state is Connected; it is 0 after every call that
\* processed a PINGRESP or an accepted CONNACK.
C30_MissedCounter ==
    /\ missed_pingresp_count \in 0..MissedLimit
    /\ state = MQTT_STATE_CONNECTED => missed_pingresp_count < MissedLimit
    /\ (last.op = "input" /\ last.dispatched \in {<<PINGRESP>>, <<CONNACK_OK>>})
           => missed_pingresp_count = 0

\* an accepted CONNACK found the counter at 3 and left it at 0
C30_Witness ==
    /\ last.op = "input"
    /\ last.dispatched = <<CONNACK_OK>>
    /\ last.pre.missed_pingresp_count = MissedLimit
    /\ missed_pingresp_count = 0

\* C38: on a healthy link, where every PINGREQ is answered by a PINGRESP
\* that is processed before the next tick that reaches the keep-alive
\* deadline, whatever the sizes of the ticks: the missed-ping counter stays
\* 0, mqtt_timer leaves the state Connected, and every tick that reaches the
\* deadline hands a new PINGREQ to the sink.
C38_HealthyLink ==
    /\ missed_pingresp_count = 0
    /\ (last.op = "timer" /\ last.pre.state = MQTT_STATE_CONNECTED) =>
          /\ state = MQTT_STATE_CONNECTED
          /\ last.events = <<>>
          /\ (/\ config.keep_alive > 0
              /\ last.pre.keep_alive_timer + last.elapsed
                     >= config.keep_alive * 1000) =>
                 last.sent = <<create_pingreq_packet>>

\* a tick of 500 ms reaches a later deadline of a session and sends the
\* PINGREQ: the session had lasted a keep-alive period before, so that an
\* earlier PINGREQ was sent and answered
C38_Witness ==
    /\ last.op = "timer"
    /\ last.elapsed = 500
    /\ last.pre_conn = config.keep_alive * 1000
    /\ last.pre.keep_alive_timer = 500
    /\ ~last.pre.waiting_pingresp
    /\ last.sent = <<create_pingreq_packet>>
    /\ state = MQTT_STATE_CONNECTED
    /\ unanswered

\* the call made last ended a session: it found the state other than
\* Disconnected and left it Disconnected
SessionEnded ==
    /\ last.op \in {"disconnect", "input", "timer"}
    /\ last.pre.state # MQTT_STATE_DISCONNECTED
    /\ state = MQTT_STATE_DISCONNECTED

\* C37: however the state became Disconnected (mqtt_disconnect, a refused
\* CONNACK, a DISCONNECT from the broker, the escalation of missed pings),
\* when the next mqtt_connect succeeds the reassembly buffer holds no byte
\* of the session before.
C37_NoBytesAcrossSessions ==
    [][(SessionEnded /\ last'.op = "connect" /\ last'.ret = 0) =>
           reassembly_len' = 0]_vars

\* the part of C37 about mqtt_disconnect: it leaves no byte held
C37_DisconnectClears ==
    (last.op = "disconnect" /\ last.ret = 0) =>
        reassembly_len = 0 /\ reassembly_capacity = 0

----------------------------------------------------------------------------
(* Properties of SpecOut *)

C15_PublishAccepted ==
    (/\ last.op = "publish"
     /\ last.pre.state = MQTT_STATE_CONNECTED
     /\ last.sinkok
     /\ last.data.qos = MQTT_QOS_0
     /\ Len(last.data.topic) > 0)
    => /\ last.ret = 0
       /\ Len(last.sent) = 1
       /\ last.sent[1][1] \div 16 = MQTT_PKT_PUBLISH
       /\ state = MQTT_STATE_CONNECTED

\* the packet identifier that a SUBSCRIBE packet carries: the two bytes
\* behind the fixed header
PacketIdOf(packet) ==
    \* 1 + the bytes of the remaining length
    IF packet[2] < 128
    THEN packet[3] * 256 + packet[4]
    ELSE packet[4] * 256 + packet[5]

\* C16: a mqtt_subscribe returns 0 only if it found the state Connected and
\* every requested QoS is 0, and then it has handed one SUBSCRIBE packet to
\* the sink that carries the identifier it has just taken from the
\* allocator, which is not 0; one that finds another state or is given a QoS
\* other than 0 returns -1, hands nothing to the sink and leaves
\* next_packet_id alone.
C16_SubscribeContract ==
    last.op = "subscribe" =>
        /\ last.ret = 0 =>
              /\ last.pre.state = MQTT_STATE_CONNECTED
              /\ \A i \in 1..Len(last.data.qos) : last.data.qos[i] = MQTT_QOS_0
              /\ Len(last.sent) = 1
              /\ last.sent[1][1] \div 16 = MQTT_PKT_SUBSCRIBE
              /\ next_packet_id # last.pre.next_packet_id
              /\ PacketIdOf(last.sent[1]) = last.pre.next_packet_id
              /\ PacketIdOf(last.sent[1]) # 0
        /\ (\/ last.pre.state # MQTT_STATE_CONNECTED
            \/ \E i \in 1..Len(last.data.qos) : last.data.qos[i] # MQTT_QOS_0)
           => /\ last.ret = -1
              /\ last.sent = <<>>
              /\ next_packet_id = last.pre.next_packet_id

\* the sink did not take the packet it was handed
SinkRefused == Len(last.sent) = 1 /\ ~last.sinkok

\* a call that got past the tests of its arguments and of the state and
\* handed nothing to the sink: the serializer returned 0
SerializationFailed ==
    /\ last.sent = <<>>
    /\ \/ /\ last.op = "publish"
          /\ last.pre.state = MQTT_STATE_CONNECTED
          /\ last.data.qos = MQTT_QOS_0
       \/ /\ last.op = "connect"
          /\ last.pre.state = MQTT_STATE_DISCONNECTED

\* C17: a mqtt_connect, mqtt_publish, mqtt_subscribe or mqtt_unsubscribe
\* whose serializer fails or whose sink does not take the packet returns -1
\* and leaves every field of the engine as it found it.
C17_OutboundErrorsKeepState ==
    (/\ last.op \in {"connect", "publish", "subscribe", "unsubscribe"}
     /\ SinkRefused \/ SerializationFailed)
    => /\ last.ret = -1
       /\ Eng = last.pre

\* C27: the keep-alive accumulator measures the time since the last
\* outbound packet: a mqtt_publish, mqtt_subscribe or mqtt_unsubscribe that
\* returned 0 leaves it at 0.
C27_OutboundResetsAccumulator ==
    (last.op \in {"publish", "subscribe", "unsubscribe"} /\ last.ret = 0) =>
        keep_alive_timer = 0

----------------------------------------------------------------------------
(* Properties of SpecIds *)

\* the identifier that follows id
NextId(id) == IF id = PacketIdModulus - 1 THEN 1 ELSE id + 1

\* C18: whichever threads call, no mqtt_get_packet_id returns 0, the first
\* call on a new engine returns 1, and every other call returns the
\* identifier that follows the one returned by the call before it: that one
\* plus 1, and 1 after 65535.  So no two calls return the same step of the
\* counter.
C18_Allocator ==
    [][last' # last =>
          /\ last'.op = "get_packet_id"
          /\ last'.ret # 0
          /\ last'.ret = last'.pre.next_packet_id
          /\ last.op = "none" => last'.ret = 1
          /\ last.op = "get_packet_id" => last'.ret = NextId(last.ret)
          /\ next_packet_id' = NextId(last'.ret)]_vars

\* one thread was returned 65535 and the other thread, next, 1
C18_Witness ==
    /\ loc[1].op = "get_packet_id"
    /\ loc[1].ret = PacketIdModulus - 1
    /\ pc[1] = "idle"
    /\ loc[2].op = "get_packet_id"
    /\ loc[2].ret = 1
    /\ pc[2] = "idle"
    /\ last.ret = 1
    /\ next_packet_id = 2

----------------------------------------------------------------------------
(* Properties of SpecBig *)

\* C19: once every byte of a packet that declares more than
\* MQTT_MAX_PACKET_SIZE bytes has been fed, with a remaining length of three
\* bytes or of four, none of its bytes is held, it has fired no handler and
\* changed no field of the session, and the PUBACK behind it is dispatched
\* as soon as it is whole, with its handler fired, and nothing else.
C19_OversizeDropped ==
    (stream # <<>> /\ cursor >= FirstLen) =>
        /\ SubSeq(Unpack(reassembly_buf), 1, reassembly_len)
               = SubSeq(Unpack(stream), FirstLen + 1,
                        IF cursor = StreamLen THEN FirstLen ELSE cursor)
        /\ [Session(Eng) EXCEPT !.held = <<>>]
               = [Session(base) EXCEPT !.held = <<>>]
        /\ dlog = IF cursor = StreamLen THEN <<PUBACK_1>> ELSE <<>>
        /\ log = IF cursor = StreamLen
                 THEN process_packet(base, PUBACK_1, handler).events
                 ELSE <<>>

\* C20: the capacity of the reassembly buffer, and the number of bytes held
\* in it, never exceed MQTT_MAX_PACKET_SIZE.
C20_CapacityBounded ==
    /\ reassembly_capacity <= MQTT_MAX_PACKET_SIZE
    /\ reassembly_len <= MQTT_MAX_PACKET_SIZE

\* the remaining length that the bytes held start with, as the codec's
\* decoder reads it from the (at most four) bytes behind the first
HeldLength ==
    read_variable_length(
        SubSeq(reassembly_buf, 2,
               Min(5, Min(reassembly_len, Len(reassembly_buf)))))

\* C31: between mqtt_input calls, when the bytes held start with a whole
\* fixed header that declares a packet of E bytes in all, fewer than E
\* bytes are held: no whole packet is left in the buffer.
C31_NoWholePacketHeld ==
    (reassembly_len >= 2 /\ HeldLength.n > 0) =>
        reassembly_len < 1 + HeldLength.n + HeldLength.value

----------------------------------------------------------------------------
(* Properties of SpecCodec *)

Serializers ==
    {"create_connect_packet", "create_publish_packet",
     "create_subscribe_packet", "create_unsubscribe_packet"}

\* C32: create_connect_packet, create_publish_packet,
\* create_subscribe_packet and create_unsubscribe_packet write only to
\* indices below buf_len, whatever the arguments and buf_len, and return 0
\* when the packet does not fit.
C32_WritesInsideBuffer ==
    last.op \in Serializers =>
        /\ last.extent <= last.buf_len
        /\ Len(last.ret) <= last.buf_len

\* the number of bytes that encode a value
LengthBytes(value) ==
    IF value < 128 THEN 1
    ELSE IF value < 128 * 128 THEN 2
    ELSE IF value < 128 * 128 * 128 THEN 3
    ELSE 4

\* C34: write_variable_length of 0, 127, 128, 16383, 16384, 2097151,
\* 2097152 or 268435455 followed by read_variable_length gives the value
\* back, and both report the same number of bytes: 1, 1, 2, 2, 3, 3, 4, 4;
\* read_variable_length returns 0 when the fourth byte has the
\* continuation bit set.
C34_RoundTrip ==
    /\ last.op = "write_variable_length" =>
          /\ last.read.value = last.arg
          /\ last.read.n = Len(last.written)
          /\ Len(last.written) = LengthBytes(last.arg)
    /\ (/\ last.op = "read_variable_length"
        /\ Len(last.arg) >= 4
        /\ \A i \in 1..4 : last.arg[i] >= 128) => last.read.n = 0

C34_Witness ==
    /\ last.op = "write_variable_length"
    /\ last.arg = 268435455
    /\ last.written = <<255, 255, 255, 127>>
    /\ last.read = [n |-> 4, value |-> 268435455]

C34_FourthContinues ==
    /\ last.op = "read_variable_length"
    /\ last.arg = <<255, 255, 255, 255, 127>>
    /\ last.read.n = 0

\* the encoding behind the first byte is whole: one of its first four
\* bytes is held and has no continuation bit, and those before it have
WholeEncoding(data) ==
    \E k \in 1..4 :
        /\ Len(data) >= 1 + k
        /\ data[1 + k] < 128
        /\ \A j \in 1..(k - 1) : data[1 + j] >= 128

\* the header is incomplete: the bytes end before the encoding does
IncompleteHeader(data) ==
    \/ Len(data) < 2
    \/ Len(data) < 5 /\ \A j \in 2..Len(data) : data[j] >= 128

\* the encoding would need a fifth byte
NeedsFifthByte(data) ==
    Len(data) >= 5 /\ \A j \in 2..5 : data[j] >= 128

\* C39: for every encoding of one to four bytes that read_variable_length
\* accepts, get_expected_packet_length returns 1 + the number of length
\* bytes + the value; it returns 0 only when the header is incomplete or
\* the encoding would need a fifth byte.
C39_AgreesWithDecoder ==
    last.op = "get_expected_packet_length" =>
        LET rl == read_variable_length(Tail(last.arg))
        IN /\ (WholeEncoding(last.arg) /\ rl.n > 0) =>
                  last.ret = 1 + rl.n + rl.value
           /\ last.ret = 0 =>
                  IncompleteHeader(last.arg) \/ NeedsFifthByte(last.arg)

\* the part of C39 about encodings of one to three bytes
C39_UpToThreeBytes ==
    (/\ last.op = "get_expected_packet_length"
     /\ WholeEncoding(last.arg)
     /\ \E k \in 2..4 : k <= Len(last.arg) /\ last.arg[k] < 128) =>
        LET rl == read_variable_length(Tail(last.arg))
        IN rl.n > 0 /\ last.ret = 1 + rl.n + rl.value

RECURSIVE FiltersWithQos(_, _, _)
FiltersWithQos(topics, qos, i) ==
    IF i > Len(topics) THEN <<>>
    ELSE <<Len(topics[i]) \div 256, Len(topics[i]) % 256>> \o topics[i]
         \o <<qos[i]>> \o FiltersWithQos(topics, qos, i + 1)

\* the topic filters of an UNSUBSCRIBE
RECURSIVE Filters(_, _)
Filters(topics, i) ==
    IF i > Len(topics) THEN <<>>
    ELSE <<Len(topics[i]) \div 256, Len(topics[i]) % 256>> \o topics[i]
         \o Filters(topics, i + 1)

\* a packet is laid out as first byte, remaining length, identifier, rest,
\* and the remaining length decodes to the number of bytes after it
LaidOut(packet, first, packet_id, rest) ==
    LET rl == read_variable_length(Tail(packet))
    IN /\ packet[1] = first
       /\ rl.n > 0
       /\ rl.value = Len(packet) - 1 - rl.n
       /\ rl.value = 2 + Len(rest)
       /\ SubSeq(packet, 2 + rl.n, Len(packet))
             = <<packet_id \div 256, packet_id % 256>> \o rest

\* C33: every SUBSCRIBE and UNSUBSCRIBE that is produced, those with a
\* remaining length of two bytes included, is the first byte 0x82 or 0xA2,
\* the remaining length, the packet identifier of the caller in two bytes,
\* high byte first, and the topic filters (each with its QoS byte in a
\* SUBSCRIBE); the remaining length is the number of bytes after it.
C33_WireLayout ==
    /\ (last.op = "create_subscribe_packet" /\ last.ret # <<>>) =>
           LaidOut(last.ret, 130, last.arg.packet_id,
                   FiltersWithQos(last.arg.topics, last.arg.qos, 1))
    /\ (last.op = "create_unsubscribe_packet" /\ last.ret # <<>>) =>
           LaidOut(last.ret, 162, last.arg.packet_id,
                   Filters(last.arg.topics, 1))

\* the part of C33 about SUBSCRIBE packets with one length byte
C33_ShortSubscribe ==
    (/\ last.op = "create_subscribe_packet"
     /\ last.ret # <<>>
     /\ Len(last.ret) < 130) =>
        LaidOut(last.ret, 130, last.arg.packet_id,
                FiltersWithQos(last.arg.topics, last.arg.qos, 1))

\* the part of C33 about SUBSCRIBE packets with two length bytes
C33_LongSubscribe ==
    (/\ last.op = "create_subscribe_packet"
     /\ Len(last.ret) >= 130) =>
        LaidOut(last.ret, 130, last.arg.packet_id,
                FiltersWithQos(last.arg.topics, last.arg.qos, 1))

----------------------------------------------------------------------------
(* Properties of SpecPackets *)

\* the call was given nothing held and packet m with a PUBACK behind it
MalformedThenPuback(m) ==
    /\ last.op = "input"
    /\ last.pre.reassembly_len = 0
    /\ last.data = m \o PUBACK_1

\* the call fired the handler of the PUBACK only and left the session as it
\* found it
Absorbed ==
    /\ last.events = <<Ev("publish_ack", 1, 0, <<>>, <<>>)>>
    /\ last.sent = <<>>
    /\ Session(Eng) = Session(last.pre)

\* C21: an inbound packet that fails structural validation (a CONNACK, PUBACK
\* or UNSUBACK shorter than 4 bytes, a SUBACK shorter than 5 bytes, a PUBLISH
\* whose topic length prefix runs past the end of the packet) fires no
\* handler and changes no state, and the dispatcher continues with the next
\* packet of the stream.
C21_ParseFailureAbsorbed ==
    \A m \in Malformed : MalformedThenPuback(m) => Absorbed

\* the same for the packets that are too short for their type: holds
C21_TooShortAbsorbed ==
    \A m \in TooShort : MalformedThenPuback(m) => Absorbed

\* C25: mqtt_input given len > 0 bytes returns len (no allocation fails),
\* whether the bytes are whole packets, pieces of packets, packets of an
\* unknown type or malformed packets; given no byte it returns -1, calls
\* nothing and changes no field of the engine.
C25_InputReturn ==
    last.op = "input" =>
        IF Len(last.data) = 0
        THEN /\ last.ret = -1
             /\ last.events = <<>>
             /\ last.sent = <<>>
             /\ Eng = last.pre
        ELSE last.ret = Len(last.data)

\* a call that was given a malformed PUBLISH and a PUBACK returned 9
C25_Witness ==
    /\ last.op = "input"
    /\ last.data = PUBLISH_PAST \o PUBACK_1
    /\ last.ret = 9

\* C28: mqtt_input hands nothing to the send sink, whatever the inbound
\* packets, a PUBLISH of QoS 1 or 2 included.
C28_NoAcknowledgement ==
    last.op = "input" => last.sent = <<>>

\* the call was given nothing held and one SUBACK of at least 5 bytes
OneSuback ==
    /\ last.op = "input"
    /\ last.pre.reassembly_len = 0
    /\ Len(last.data) >= 5
    /\ last.data[1] \div 16 = MQTT_PKT_SUBACK
    /\ WholePackets(last.data) = <<last.data>>

\* the call fired subscribe_ack once, with the packet identifier of bytes 2
\* and 3 and the return codes that are the payload (the bytes after the
\* fixed header of 1 + n bytes and the identifier) when the remaining length
\* less 2 is at most 16, and no handler when it is more
SubackAsDecoded ==
    \E vl \in {read_variable_length(SubSeq(last.data, 2, Len(last.data)))} :
        last.events =
            IF vl.value - 2 <= MaxReturnCodes
            THEN <<Ev("subscribe_ack", At(last.data, 2) * 256 + At(last.data, 3),
                      0, Slice(last.data, 1 + vl.n + 2, vl.value - 2), <<>>)>>
            ELSE <<>>

\* C29: an inbound SUBACK of at least 5 bytes fires subscribe_ack once with
\* the packet identifier of bytes 2-3 and the return codes, as many as the
\* remaining length less 2, that are the payload bytes in order; a SUBACK
\* with more than 16 return codes fires no handler.
C29_SubackContract ==
    OneSuback => SubackAsDecoded

\* the same for the SUBACKs whose remaining length is written on one byte:
\* holds
C29_OneByteLength ==
    (OneSuback /\ At(last.data, 1) < 128) => SubackAsDecoded

----------------------------------------------------------------------------
(* Properties of SpecCalls *)

\* thread t is about to call the send sink or a handler
InCallback(t) ==
    pc[t] \in {"connect_send", "disconnect_send", "disconnect_callback",
               "timer_out", "packet_callback", "out_send"}

\* C22: at every invocation of the send sink or of an event handler, from
\* connect, disconnect, publish, subscribe, unsubscribe, input dispatch and
\* timer, the calling thread does not hold the engine's lock (so the handler
\* may call an entry point of the same engine without spinning on its own
\* lock).
C22_CallbacksOutsideLock ==
    \A t \in Threads : InCallback(t) => lock # t

\* a thread is about to call on_connection for a CONNACK it has applied
\* under the lock, while the other is about to hand a packet to the sink
C22_Witness ==
    \E t \in Threads, u \in Threads :
        /\ pc[t] = "packet_callback"
        /\ loc[t].pending # <<>>
        /\ loc[t].packet = CONNACK_OK
        /\ pc[u] = "out_send"

----------------------------------------------------------------------------
(* Properties of SpecRouting *)

\* the handler of a packet type
HandlerOf(packet) ==
    CASE packet[1] \div 16 = MQTT_PKT_PUBLISH -> "on_message"
      [] packet[1] \div 16 = MQTT_PKT_PUBACK -> "publish_ack"
      [] packet[1] \div 16 = MQTT_PKT_SUBACK -> "subscribe_ack"
      [] packet[1] \div 16 = MQTT_PKT_UNSUBACK -> "unsubscribe_ack"

\* the handlers a call invoked, in order
Invoked == [i \in 1..Len(last.events) |-> last.events[i].h]

\* the handlers of the packets, in order, those not installed left out
Wanted(packets) ==
    SelectSeq([i \in 1..Len(packets) |-> HandlerOf(packets[i])],
              LAMBDA h : h \in handler)

\* the call left the connection state and the keep-alive fields alone
KeepsSession ==
    /\ state = last.pre.state
    /\ waiting_pingresp = last.pre.waiting_pingresp
    /\ missed_pingresp_count = last.pre.missed_pingresp_count
    /\ keep_alive_timer = last.pre.keep_alive_timer

\* a mqtt_input call given the packets, nothing held, routed each of them
Routes(packets) ==
    (/\ last.op = "input"
     /\ last.pre.reassembly_len = 0
     /\ last.data = Flatten(packets)) =>
        /\ Invoked = Wanted(packets)
        /\ KeepsSession
        /\ reassembly_len = 0

\* C40: every whole well-formed inbound PUBLISH, PUBACK, SUBACK and
\* UNSUBACK fires its own handler (on_message, publish_ack, subscribe_ack,
\* unsubscribe_ack) once and no other handler, and changes neither the
\* connection state nor the keep-alive fields; when its handler is not
\* installed the packet fires nothing and the packet behind it is still
\* dispatched.
C40_DispatchRouting ==
    /\ \A first \in RoutedPackets : Routes(<<first>>)
    /\ \A first \in RoutedPackets, second \in {PUBACK_1, PUBLISH_T} :
          Routes(<<first, second>>)

\* the part of C40 that holds: the packets other than a PUBLISH whose topic
\* has TopicBufSize bytes or more
C40_ShortTopics ==
    /\ \A first \in RoutedPackets \ {PublishOf(TopicBufSize)} :
          Routes(<<first>>)
    /\ \A first \in RoutedPackets \ {PublishOf(TopicBufSize)},
          second \in {PUBACK_1, PUBLISH_T} :
          Routes(<<first, second>>)

----------------------------------------------------------------------------
(* Properties of SpecAlias *)

\* thread t holds the lock in mqtt_input and is about to frame or to copy
\* the bytes current_data .. current_data + remaining_len of the
\* reassembly buffer
ReadsReassembly(t) ==
    /\ pc[t] \in {"input_loop", "input_save"}
    /\ loc[t].aliased
    /\ loc[t].off < loc[t].len

\* C35: the region of the reassembly buffer that mqtt_input goes on to
\* read once it has the lock again is still allocated: no mqtt_disconnect
\* and no other mqtt_input that ran while the lock was released has freed
\* the buffer.
C35_RegionStaysAllocated ==
    \A t \in Threads :
        ReadsReassembly(t) => reassembly_capacity >= loc[t].len

\* the part of C35 that holds: before its first release of the lock the
\* call reads a buffer that holds all its bytes
C35_AllocatedBeforeRelease ==
    \A t \in Threads :
        (ReadsReassembly(t) /\ loc[t].off = 0) =>
            reassembly_capacity >= loc[t].len

----------------------------------------------------------------------------
(* Properties of SpecInputs *)

\* both calls have returned
BothReturned == \A t \in Threads : pc[t] = "idle" /\ loc[t].op = "input"

\* what the call of thread t was given
GivenTo(t) == CHOOSE data \in OnceInputs : Len(data) = loc[t].ret

\* the engine is as two calls in a row, first one then other, leave a new
\* engine
AsInOrder(first, other) ==
    \E backward \in BOOLEAN :
    \E r1 \in {mqtt_input(Created, handler, first, backward)} :
    \E r2 \in {mqtt_input(r1.e, handler, other, backward)} :
       Session(Eng) = Session(r2.e)

\* C23: when two threads call mqtt_input concurrently on one engine, the
\* session and the bytes held once both have returned are those that the
\* two calls leave in some serial order: no byte of a call is lost or
\* overwritten by the bytes the other call keeps.
C23_SerialOutcome ==
    BothReturned =>
        \/ AsInOrder(GivenTo(1), GivenTo(2))
        \/ AsInOrder(GivenTo(2), GivenTo(1))

----------------------------------------------------------------------------
(* Properties of SpecFair *)

----------------------------------------------------------------------------
(* Properties of SpecStream *)

\* C1: when the last chunk of a stream of whole packets has been fed, the
\* handler invocations made since the stream started, and the session the
\* engine is left in, are those of one mqtt_input call given the whole
\* stream by the engine the stream started on.
C1_FragmentationTransparent ==
    (stream # <<>> /\ cursor = Len(stream)) =>
        LET whole == mqtt_input(base, handler, stream, FALSE)
        IN /\ log = whole.events
           /\ Session(Eng) = Session(whole.e)

\* C2: the packets handed to process_packet while a stream is fed are the
\* whole packets among the bytes fed so far, each once, in the order of their
\* bytes; a PINGRESP followed by a PUBACK in one call is dispatched as
\* PINGRESP, then PUBACK, and leaves awaiting-pingresp clear.
C2_InOrderDispatch ==
    /\ stream # <<>> => dlog = WholePackets(SubSeq(stream, 1, cursor))
    /\ (last.op = "input" /\ last.data = PINGRESP \o PUBACK_1
            /\ last.pre.reassembly_len = 0) =>
           /\ last.dispatched = <<PINGRESP, PUBACK_1>>
           /\ last.events = <<Ev("publish_ack", 1, 0, <<>>, <<>>)>>
           /\ ~waiting_pingresp

----------------------------------------------------------------------------
(* Properties of SpecConc *)

\* C36: of the mqtt_connect calls made by the two threads at the same time
\* while the state is Disconnected, one returns 0 and gives one CONNECT to
\* the sink and the other returns -1 and sends nothing: the two calls are
\* never both past the send of their CONNECT.
C36_OneConnectWins ==
    ~(\A t \in Threads : pc[t] \in {"connect_lock", "connect_set"})

\* C5: no step of any thread, in any interleaving of mqtt_connect,
\* mqtt_input, mqtt_timer and mqtt_disconnect, takes the state from Connected
\* to Connecting.
C5_NoConnectedToConnecting ==
    [][~(state = MQTT_STATE_CONNECTED /\ state' = MQTT_STATE_CONNECTING)]_vars

====
